---------------------------- MODULE Spec2Model ----------------------------
(***************************************************************************)
(* NanoCore virtual machine: the handle-based embedding API of             *)
(* src/glue/ffi/nanocore_ffi.c (registry, instance state, decoder,         *)
(* executor, step/run loop, breakpoints, host memory I/O).                 *)
(*                                                                         *)
(* Number representation.  TLC's integers are 32 bits wide, the machine's  *)
(* are 64.  A uint64_t is therefore the tuple of its eight bytes, least    *)
(* significant first (the layout ST gives it in memory), and every         *)
(* arithmetic operator below works on those tuples modulo 2^64.  A         *)
(* uint32_t instruction word is the tuple of its four bytes.               *)
(***************************************************************************)
EXTENDS Integers, Sequences, FiniteSets, TLC

(***************************************************************************)
(* uint64_t arithmetic on little-endian byte tuples                         *)
(***************************************************************************)
Byte == 0..255

\* The uint64_t with value n, for 0 <= n < 2^31.
U64Of(n) ==
    <<n % 256, (n \div 256) % 256, (n \div 65536) % 256, n \div 16777216,
      0, 0, 0, 0>>

Zero64 == U64Of(0)

\* The value of a uint64_t below 2^31 (IsSmall) as a number.
IsSmall(u) == u[5] = 0 /\ u[6] = 0 /\ u[7] = 0 /\ u[8] = 0 /\ u[4] < 128

ToNat(u) == u[1] + 256 * u[2] + 65536 * u[3] + 16777216 * u[4]

\* a + b + c modulo 2^64 for a carry-in c of 0 or 1, byte by byte.
AddC(a, b, c) ==
    LET s1 == a[1] + b[1] + c
        s2 == a[2] + b[2] + (s1 \div 256)
        s3 == a[3] + b[3] + (s2 \div 256)
        s4 == a[4] + b[4] + (s3 \div 256)
        s5 == a[5] + b[5] + (s4 \div 256)
        s6 == a[6] + b[6] + (s5 \div 256)
        s7 == a[7] + b[7] + (s6 \div 256)
        s8 == a[8] + b[8] + (s7 \div 256)
    IN  <<s1 % 256, s2 % 256, s3 % 256, s4 % 256,
          s5 % 256, s6 % 256, s7 % 256, s8 % 256>>

\* a + b modulo 2^64
U64Add(a, b) == AddC(a, b, 0)

\* The tuple <<f(1), ..., f(8)>>, built element by element.
Tup8(f(_)) == <<f(1), f(2), f(3), f(4), f(5), f(6), f(7), f(8)>>

U64Not(a) == LET f(i) == 255 - a[i] IN Tup8(f)

\* a - b modulo 2^64
U64Sub(a, b) == AddC(a, U64Not(b), 1)

RECURSIVE ColSum(_, _, _, _)
ColSum(a, b, k, i) ==
    IF i > k THEN 0 ELSE a[i] * b[k + 1 - i] + ColSum(a, b, k, i + 1)

RECURSIVE MulC(_, _, _, _)
MulC(a, b, k, c) ==
    IF k > 8 THEN <<>>
    ELSE LET s == c + ColSum(a, b, k, 1)
         IN  <<s % 256>> \o MulC(a, b, k + 1, s \div 256)

\* low 64 bits of a * b
U64Mul(a, b) == MulC(a, b, 1, 0)

RECURSIVE LtFrom(_, _, _)
LtFrom(a, b, i) ==
    IF i = 0 THEN FALSE
    ELSE IF a[i] # b[i] THEN a[i] < b[i]
    ELSE LtFrom(a, b, i - 1)

\* unsigned comparison
U64Lt(a, b) == a # b /\ LtFrom(a, b, 8)

U64Le(a, b) == ~U64Lt(b, a)

\* (int64_t)a < (int64_t)b : two's complement, the sign is bit 7 of byte 8
I64Lt(a, b) ==
    LET na == a[8] >= 128
        nb == b[8] >= 128
    IN  IF na # nb THEN na ELSE U64Lt(a, b)

RECURSIVE Pow2(_)
Pow2(n) == IF n = 0 THEN 1 ELSE 2 * Pow2(n - 1)

ByteAt(a, i) == IF i >= 1 /\ i <= 8 THEN a[i] ELSE 0

\* a << n for 0 <= n <= 63
U64Shl(a, n) ==
    LET q == n \div 8
        r == n % 8
        f(i) == ((ByteAt(a, i - q) * Pow2(r)) % 256)
                + (ByteAt(a, i - q - 1) \div Pow2(8 - r))
    IN  Tup8(f)

\* a >> n (logical) for 0 <= n <= 63
U64Shr(a, n) ==
    LET q == n \div 8
        r == n % 8
        f(i) == (ByteAt(a, i + q) \div Pow2(r))
                + ((ByteAt(a, i + q + 1) * Pow2(8 - r)) % 256)
    IN  Tup8(f)

RECURSIVE AndBits(_, _, _)
AndBits(x, y, n) ==
    IF n = 0 THEN 0
    ELSE ((x % 2) * (y % 2)) + 2 * AndBits(x \div 2, y \div 2, n - 1)

RECURSIVE OrBits(_, _, _)
OrBits(x, y, n) ==
    IF n = 0 THEN 0
    ELSE (IF (x % 2) + (y % 2) > 0 THEN 1 ELSE 0)
         + 2 * OrBits(x \div 2, y \div 2, n - 1)

RECURSIVE XorBits(_, _, _)
XorBits(x, y, n) ==
    IF n = 0 THEN 0
    ELSE (((x % 2) + (y % 2)) % 2) + 2 * XorBits(x \div 2, y \div 2, n - 1)

U64And(a, b) == LET f(i) == AndBits(a[i], b[i], 8) IN Tup8(f)

U64Or(a, b) == LET f(i) == OrBits(a[i], b[i], 8) IN Tup8(f)

U64Xor(a, b) == LET f(i) == XorBits(a[i], b[i], 8) IN Tup8(f)

\* Unsigned restoring division, 64 rounds on the register pair (r, q): q
\* starts as the dividend and hands its top bit to the remainder r each
\* round, taking a quotient bit in at the bottom.  r stays below b, so
\* doubling it leaves 64 bits only when b has bit 63 set; `top` is that
\* carry, and then b fits.
RECURSIVE DivStep(_, _, _, _)
DivStep(b, n, q, r) ==
    IF n = 0 THEN <<q, r>>
    ELSE LET top == r[8] >= 128
             r2  == U64Add(U64Shl(r, 1), U64Of(q[8] \div 128))
             q2  == U64Shl(q, 1)
         IN  IF top \/ U64Le(b, r2)
             THEN DivStep(b, n - 1, U64Add(q2, U64Of(1)), U64Sub(r2, b))
             ELSE DivStep(b, n - 1, q2, r2)

\* Fault injection: the division with its operands exchanged.
U64Div_Swapped(a, b) == DivStep(a, 64, b, Zero64)[1]

\* a / b and a % b (unsigned), for b # 0
U64Div(a, b) == DivStep(b, 64, a, Zero64)[1]

U64Mod(a, b) == DivStep(b, 64, a, Zero64)[2]

\* (uint64_t)(int64_t)imm for an int16_t held as its 16-bit pattern 0..65535
SignExtend16(imm) ==
    LET f == IF imm >= 32768 THEN 255 ELSE 0
    IN  <<imm % 256, imm \div 256, f, f, f, f, f, f>>

(***************************************************************************)
(* Status and event codes                                                   *)
(***************************************************************************)
NANOCORE_OK == 0
NANOCORE_ERROR == -1
NANOCORE_ENOMEM == -2
NANOCORE_EINVAL == -3
EVENT_HALTED == 0
EVENT_BREAKPOINT == 1
EVENT_EXCEPTION == 2

(***************************************************************************)
(* Instances                                                                *)
(***************************************************************************)
\* Capacity of the registry, and of one instance's breakpoint array.
NumSlots == 256
NumBreakpoints == 64

\* The default entry point 0x10000.
EntryPoint == 65536

\* An empty registry slot.
NULL == [null |-> TRUE]

\* vm_state_t filled with zero bytes (calloc, memset).
ZeroState ==
    [pc            |-> Zero64,
     sp            |-> Zero64,
     flags         |-> Zero64,
     gprs          |-> [i \in 0..31 |-> Zero64],
     vregs         |-> [i \in 0..15 |-> [j \in 0..3 |-> Zero64]],
     perf_counters |-> [i \in 0..7 |-> Zero64],
     cache_ctrl    |-> Zero64,
     vbase         |-> Zero64]

\* The vm_instance_t that nanocore_vm_create builds: everything zero, then
\* the stack pointer at the top of memory and the default entry point.
NewInstance(memory_size, id) ==
    [state           |-> [ZeroState EXCEPT
                             !.sp = U64Sub(U64Of(memory_size), U64Of(8)),
                             !.pc = U64Of(EntryPoint)],
     memory          |-> [a \in 0..(memory_size - 1) |-> 0],
     memory_size     |-> memory_size,
     halted          |-> FALSE,
     breakpoints     |-> [i \in 0..(NumBreakpoints - 1) |-> Zero64],
     num_breakpoints |-> 0,
     vm_id           |-> id]

(***************************************************************************)
(* Accesses to the memory buffer.  An address is a uint64_t offset from    *)
(* the start of the buffer; `memory + address` wraps with the pointer, so  *)
(* an offset at the top of the 64-bit range names bytes below the buffer.  *)
(***************************************************************************)
\* Whether the byte at offset u lies in the buffer.
InBuffer(vm, u) == IsSmall(u) /\ ToNat(u) < vm.memory_size

\* Whether an access of `size` bytes at `address` leaves the buffer: its
\* first byte does (every offset of 2^31 or more is outside), or its last.
LeavesBuffer(vm, address, size) ==
    /\ size > 0
    /\ ~(IsSmall(address) /\ ToNat(address) <= vm.memory_size - size)

\* Fault injection: the copy that ignores `address` and starts at offset 0.
StoreBytes_AtZero(vm, address, data) ==
    [a \in DOMAIN vm.memory |->
        IF a < Len(data) THEN data[a + 1] ELSE vm.memory[a]]

\* The buffer after `data` is copied to `address`: the bytes of the copy
\* that fall in the buffer are replaced (memcpy, the 64-bit store of ST).
\* Byte a of the buffer receives data[a - address], the difference taken
\* modulo 2^64.
RECURSIVE StoreFrom(_, _, _, _)
StoreFrom(memory, base, data, i) ==
    IF i > Len(data) THEN memory
    ELSE StoreFrom(IF (base + i) - 1 \in DOMAIN memory
                   THEN [memory EXCEPT ![(base + i) - 1] = data[i]]
                   ELSE memory,
                   base, data, i + 1)

StoreBytes(vm, address, data) ==
    IF IsSmall(address)
    THEN StoreFrom(vm.memory, ToNat(address), data, 1)
    ELSE LET neg == U64Sub(Zero64, address)
         IN  [a \in DOMAIN vm.memory |->
                LET i == U64Add(U64Of(a), neg)
                IN  IF IsSmall(i) /\ ToNat(i) < Len(data)
                    THEN data[ToNat(i) + 1]
                    ELSE vm.memory[a]]

\* What a byte read outside the buffer may hold (allocator data, another
\* heap object): the model lets it be any of these.
StrayBytes == {0, 255}

\* The sequences of `size` bytes a read at `address` can return: the
\* buffer's bytes where the read stays inside, stray bytes elsewhere.
RECURSIVE LoadBytes(_, _, _)
LoadBytes(vm, address, size) ==
    IF size = 0 THEN {<<>>}
    ELSE LET first == IF InBuffer(vm, address)
                      THEN {vm.memory[ToNat(address)]}
                      ELSE StrayBytes
         IN  {<<b>> \o rest :
                b \in first,
                rest \in LoadBytes(vm, U64Add(address, U64Of(1)), size - 1)}

(***************************************************************************)
(* Outcomes.  An operation on an instance yields a set of outcomes: the    *)
(* instance afterwards, the status returned, the bytes handed back, and    *)
(* the fault, if the operation touched memory outside the buffer:          *)
(*   "oob_read"  it read there and went on with what it found,             *)
(*   "oob_write" it wrote there and went on (the heap is damaged),         *)
(*   "abort"     the access ended the process (a trap, a checked build).   *)
(***************************************************************************)
Outcome(vm, ret, fault) == [vm |-> vm, ret |-> ret, fault |-> fault, out |-> <<>>]

FaultRank(f) ==
    CASE f = "none" -> 0 [] f = "oob_read" -> 1 [] f = "oob_write" -> 2
      [] f = "abort" -> 3

JoinFault(f, g) == IF FaultRank(f) >= FaultRank(g) THEN f ELSE g

(***************************************************************************)
(* Decoder: the fields of a 32-bit instruction word <<b0, b1, b2, b3>>      *)
(* (little-endian): opcode [31:26], rd [25:21], rs1 [20:16], rs2 [15:11],   *)
(* imm [15:0].                                                              *)
(***************************************************************************)
Opcode(w) == w[4] \div 4

Rd(w) == ((w[4] % 4) * 8) + (w[3] \div 32)

Rs1(w) == w[3] % 32

\* Fault injection: rs2 taken from the low five bits of the word.
Rs2_LowBits(w) == w[1] % 32

Rs2(w) == w[2] \div 8

\* The int16_t immediate, as its 16-bit pattern.
Imm(w) == w[1] + (256 * w[2])

(***************************************************************************)
(* Executor                                                                 *)
(***************************************************************************)
\* Fault injection: the register write without its guard on register 0.
WriteRd_Unguarded(vm, rd, value) == [vm EXCEPT !.state.gprs[rd] = value]

\* gprs[rd] = value, unless rd is register 0.
WriteRd(vm, rd, value) ==
    IF rd # 0 THEN [vm EXCEPT !.state.gprs[rd] = value] ELSE vm

\* perf_counters[0]++ (instructions) and perf_counters[1]++ (cycles).
Retire(vm) ==
    [vm EXCEPT !.state.perf_counters[0] = U64Add(@, U64Of(1)),
               !.state.perf_counters[1] = U64Add(@, U64Of(1))]

\* Fault injection: the branch that adds the displacement to the pc
\* already moved past the branch.
BranchTaken_FromNext(vm, imm) ==
    [vm EXCEPT !.state.pc = U64Add(@, U64Shl(SignExtend16(imm), 1))]

\* pc += (imm << 1) - 4, the int converted to uint64_t.
BranchTaken(vm, imm) ==
    [vm EXCEPT !.state.pc =
        U64Add(@, U64Sub(U64Shl(SignExtend16(imm), 1), U64Of(4)))]

\* ST: the 8 bytes of gprs[rd] go to memory + addr when addr + 8 (modulo
\* 2^64) is within memory_size.  When that sum wrapped, the store starts
\* below the buffer.
ExecuteStore(vm, rd, rs1, imm) ==
    LET addr == U64Add(vm.state.gprs[rs1], SignExtend16(imm))
        done == [vm EXCEPT !.memory = StoreBytes(vm, addr, vm.state.gprs[rd])]
    IN  IF U64Le(U64Add(addr, U64Of(8)), U64Of(vm.memory_size))
        THEN IF LeavesBuffer(vm, addr, 8)
             THEN {Outcome(Retire(done), NANOCORE_OK, "oob_write"),
                   Outcome(vm, NANOCORE_OK, "abort")}
             ELSE {Outcome(Retire(done), NANOCORE_OK, "none")}
        ELSE {Outcome(Retire(vm), NANOCORE_OK, "none")}

execute_instruction(vm0, instruction) ==
    LET opcode == Opcode(instruction)
        rd     == Rd(instruction)
        rs1    == Rs1(instruction)
        rs2    == Rs2(instruction)
        imm    == Imm(instruction)
        vm     == [vm0 EXCEPT !.state.gprs[0] = Zero64]
        g      == vm.state.gprs
        alu(value) == {Outcome(Retire(WriteRd(vm, rd, value)), NANOCORE_OK, "none")}
        same   == {Outcome(Retire(vm), NANOCORE_OK, "none")}
        branch(taken) ==
            {Outcome(Retire(IF taken THEN BranchTaken(vm, imm) ELSE vm),
                     NANOCORE_OK, "none")}
    IN  CASE opcode = 0  -> alu(U64Add(g[rs1], g[rs2]))                \* ADD
          [] opcode = 1  -> alu(U64Sub(g[rs1], g[rs2]))                \* SUB
          [] opcode = 2  -> alu(U64Mul(g[rs1], g[rs2]))                \* MUL
          [] opcode = 4  -> IF rd # 0 /\ g[rs2] # Zero64               \* DIV
                            THEN alu(U64Div(g[rs1], g[rs2])) ELSE same
          [] opcode = 5  -> IF rd # 0 /\ g[rs2] # Zero64               \* MOD
                            THEN alu(U64Mod(g[rs1], g[rs2])) ELSE same
          [] opcode = 6  -> alu(U64And(g[rs1], g[rs2]))                \* AND
          [] opcode = 7  -> alu(U64Or(g[rs1], g[rs2]))                 \* OR
          [] opcode = 8  -> alu(U64Xor(g[rs1], g[rs2]))                \* XOR
          [] opcode = 10 -> alu(U64Shl(g[rs1], g[rs2][1] % 64))        \* SHL
          [] opcode = 11 -> alu(U64Shr(g[rs1], g[rs2][1] % 64))        \* SHR
          [] opcode = 15 -> alu(SignExtend16(imm))                     \* LD
          [] opcode = 19 -> ExecuteStore(vm, rd, rs1, imm)             \* ST
          [] opcode = 23 -> branch(g[rd] = g[rs1])                     \* BEQ
          [] opcode = 24 -> branch(g[rd] # g[rs1])                     \* BNE
          [] opcode = 25 -> branch(I64Lt(g[rd], g[rs1]))               \* BLT
          [] opcode = 33 ->                                            \* HALT
                {Outcome([vm EXCEPT !.halted = TRUE,
                                    !.state.flags = U64Or(@, U64Of(128))],
                         EVENT_HALTED, "none")}
          [] opcode = 34 -> same                                       \* NOP
          [] OTHER ->
                {Outcome([vm EXCEPT !.halted = TRUE], NANOCORE_ERROR, "none")}

(***************************************************************************)
(* Step and run                                                             *)
(***************************************************************************)
\* Whether pc is one of the instance's breakpoints.
AtBreakpoint(vm) ==
    \E i \in 0..(vm.num_breakpoints - 1) : vm.breakpoints[i] = vm.state.pc

\* The fetch and execution of the word at pc.  The bounds check before it
\* compares pc + 4 modulo 2^64, so a pc in the last four bytes of the
\* address range passes it and the fetch reads below the buffer.
\* The word is read through a uint32_t pointer: at a pc that is not a
\* multiple of 4 the read is misaligned, which either gives the four bytes
\* or ends the process.
FetchExecute(vm) ==
    LET pc      == vm.state.pc
        stray   == LeavesBuffer(vm, pc, 4)
        next    == [vm EXCEPT !.state.pc = U64Add(pc, U64Of(4))]
        results == UNION {execute_instruction(next, w) : w \in LoadBytes(vm, pc, 4)}
    IN  IF stray
        THEN {[o EXCEPT !.fault = JoinFault(@, "oob_read")] : o \in results}
             \cup {Outcome(vm, NANOCORE_OK, "abort")}
        ELSE IF pc[1] % 4 # 0
        THEN results \cup {Outcome(vm, NANOCORE_OK, "abort")}
        ELSE results

\* Fault injection: the step without its test of the halted flag.
vm_step_NoHaltCheck(vm) ==
    IF U64Lt(U64Of(vm.memory_size), U64Add(vm.state.pc, U64Of(4)))
    THEN {Outcome([vm EXCEPT !.halted = TRUE], NANOCORE_ERROR, "none")}
    ELSE IF AtBreakpoint(vm)
    THEN {Outcome(vm, EVENT_BREAKPOINT, "none")}
    ELSE FetchExecute(vm)

\* Fault injection: the step without its scan of the breakpoints.
vm_step_NoBreakpoints(vm) ==
    IF vm.halted
    THEN {Outcome(vm, EVENT_HALTED, "none")}
    ELSE IF U64Lt(U64Of(vm.memory_size), U64Add(vm.state.pc, U64Of(4)))
    THEN {Outcome([vm EXCEPT !.halted = TRUE], NANOCORE_ERROR, "none")}
    ELSE FetchExecute(vm)

vm_step(vm) ==
    IF vm.halted
    THEN {Outcome(vm, EVENT_HALTED, "none")}
    ELSE IF U64Lt(U64Of(vm.memory_size), U64Add(vm.state.pc, U64Of(4)))
    THEN {Outcome([vm EXCEPT !.halted = TRUE], NANOCORE_ERROR, "none")}
    ELSE IF AtBreakpoint(vm)
    THEN {Outcome(vm, EVENT_BREAKPOINT, "none")}
    ELSE FetchExecute(vm)

\* The most instructions the model lets an instance retire between resets.
MaxRetired == 2

\* Whether the model follows an instance this far.
\* The most instructions the model lets an instance retire that is large
\* enough to hold a program at the default entry point.
MaxRetiredAtEntry == 4

WithinRetired(vm) ==
    U64Le(vm.state.perf_counters[0],
          U64Of(IF vm.memory_size > EntryPoint THEN MaxRetiredAtEntry
                ELSE MaxRetired))

\* Fault injection: the loop that tests count <= max_instructions.
RECURSIVE run_loop_OffByOne(_, _, _, _)
run_loop_OffByOne(vm, count, max_instructions, fault) ==
    IF ~vm.halted /\ (max_instructions = 0 \/ count <= max_instructions)
    THEN IF ~WithinRetired(vm)
         THEN {Outcome(vm, NANOCORE_OK, fault)}
         ELSE UNION {
                IF o.fault = "abort" THEN {o}
                ELSE IF o.ret # NANOCORE_OK
                THEN {[o EXCEPT !.fault = JoinFault(fault, @)]}
                ELSE run_loop_OffByOne(o.vm, count + 1, max_instructions,
                                       JoinFault(fault, o.fault))
                : o \in vm_step(vm)}
    ELSE {Outcome(vm, IF vm.halted THEN EVENT_HALTED ELSE NANOCORE_OK, fault)}

\* The loop of nanocore_vm_run from its head, after `count` steps that
\* returned NANOCORE_OK; `fault` is the worst fault so far.  A loop that is
\* past MaxRetired is not followed further (WithinRetired rejects it).
RECURSIVE run_loop(_, _, _, _)
run_loop(vm, count, max_instructions, fault) ==
    IF ~vm.halted /\ (max_instructions = 0 \/ count < max_instructions)
    THEN IF ~WithinRetired(vm)
         THEN {Outcome(vm, NANOCORE_OK, fault)}
         ELSE UNION {
                IF o.fault = "abort" THEN {o}
                ELSE IF o.ret # NANOCORE_OK
                THEN {[o EXCEPT !.fault = JoinFault(fault, @)]}
                ELSE run_loop(o.vm, count + 1, max_instructions,
                              JoinFault(fault, o.fault))
                : o \in vm_step(vm)}
    ELSE {Outcome(vm, IF vm.halted THEN EVENT_HALTED ELSE NANOCORE_OK, fault)}

vm_run(vm, max_instructions) == run_loop(vm, 0, max_instructions, "none")

(***************************************************************************)
(* The other operations on one instance                                     *)
(***************************************************************************)
\* Fault injection: the reset that moves sp down from where it is.
vm_reset_StackDrift(vm) ==
    [vm EXCEPT !.state = [ZeroState EXCEPT
                             !.sp = U64Sub(vm.state.sp, U64Of(8)),
                             !.pc = U64Of(EntryPoint)],
               !.halted = FALSE,
               !.num_breakpoints = 0]

\* Fault injection: the reset that leaves the breakpoints set.
vm_reset_KeepsBreakpoints(vm) ==
    [vm EXCEPT !.state = [ZeroState EXCEPT
                             !.sp = U64Sub(U64Of(vm.memory_size), U64Of(8)),
                             !.pc = U64Of(EntryPoint)],
               !.halted = FALSE]

vm_reset(vm) ==
    [vm EXCEPT !.state = [ZeroState EXCEPT
                             !.sp = U64Sub(U64Of(vm.memory_size), U64Of(8)),
                             !.pc = U64Of(EntryPoint)],
               !.halted = FALSE,
               !.num_breakpoints = 0]

vm_get_register(vm, reg_index) ==
    IF reg_index < 0 \/ reg_index >= 32
    THEN Outcome(vm, NANOCORE_EINVAL, "none")
    ELSE [Outcome(vm, NANOCORE_OK, "none") EXCEPT !.out = vm.state.gprs[reg_index]]

vm_set_register(vm, reg_index, value) ==
    IF reg_index < 0 \/ reg_index >= 32
    THEN Outcome(vm, NANOCORE_EINVAL, "none")
    ELSE IF reg_index # 0
    THEN Outcome([vm EXCEPT !.state.gprs[reg_index] = value], NANOCORE_OK, "none")
    ELSE Outcome(vm, NANOCORE_OK, "none")

\* A host buffer: a null pointer, or `bytes`.
Buffer(bytes) == [null |-> FALSE, bytes |-> bytes]

NullBuffer == [null |-> TRUE, bytes |-> <<>>]

\* The copy of data.bytes to memory + address, after the check of
\* address + size (modulo 2^64) against memory_size.
CopyIn(vm, data, address, set_pc) ==
    LET size == Len(data.bytes)
        done == [vm EXCEPT !.memory = StoreBytes(vm, address, data.bytes),
                           !.state.pc = IF set_pc THEN address ELSE @]
    IN  IF data.null
        THEN {Outcome(vm, NANOCORE_EINVAL, "none")}
        ELSE IF U64Lt(U64Of(vm.memory_size), U64Add(address, U64Of(size)))
        THEN {Outcome(vm, NANOCORE_EINVAL, "none")}
        ELSE IF LeavesBuffer(vm, address, size)
        THEN {Outcome(done, NANOCORE_OK, "oob_write"),
              Outcome(vm, NANOCORE_OK, "abort")}
        ELSE {Outcome(done, NANOCORE_OK, "none")}

vm_load_program(vm, data, address) == CopyIn(vm, data, address, TRUE)

vm_write_memory(vm, address, data) == CopyIn(vm, data, address, FALSE)

vm_read_memory(vm, address, size) ==
    IF U64Lt(U64Of(vm.memory_size), U64Add(address, U64Of(size)))
    THEN {Outcome(vm, NANOCORE_EINVAL, "none")}
    ELSE IF LeavesBuffer(vm, address, size)
    THEN {[Outcome(vm, NANOCORE_OK, "oob_read") EXCEPT !.out = bytes] :
             bytes \in LoadBytes(vm, address, size)}
         \cup {Outcome(vm, NANOCORE_OK, "abort")}
    ELSE {[Outcome(vm, NANOCORE_OK, "none") EXCEPT !.out = bytes] :
             bytes \in LoadBytes(vm, address, size)}

vm_set_breakpoint(vm, address) ==
    IF vm.num_breakpoints >= NumBreakpoints
    THEN Outcome(vm, NANOCORE_ERROR, "none")
    ELSE Outcome([vm EXCEPT !.breakpoints[vm.num_breakpoints] = address,
                            !.num_breakpoints = @ + 1],
                 NANOCORE_OK, "none")

\* The first index holding `address` is removed by shifting the entries
\* after it down by one.
vm_clear_breakpoint(vm, address) ==
    LET n    == vm.num_breakpoints
        hits == {i \in 0..(n - 1) : vm.breakpoints[i] = address}
    IN  IF hits = {}
        THEN Outcome(vm, NANOCORE_ERROR, "none")
        ELSE LET first == CHOOSE i \in hits : \A k \in hits : i <= k
             IN  Outcome([vm EXCEPT
                            !.breakpoints =
                                [j \in DOMAIN @ |->
                                    IF j >= first /\ j < n - 1
                                    THEN vm.breakpoints[j + 1]
                                    ELSE vm.breakpoints[j]],
                            !.num_breakpoints = n - 1],
                         NANOCORE_OK, "none")

vm_get_perf_counter(vm, counter_index) ==
    IF counter_index < 0 \/ counter_index >= 8
    THEN Outcome(vm, NANOCORE_EINVAL, "none")
    ELSE [Outcome(vm, NANOCORE_OK, "none") EXCEPT
             !.out = vm.state.perf_counters[counter_index]]

\* EVENT_HALTED with data 0 when halted, else no event pending.
vm_poll_event(vm) ==
    IF vm.halted
    THEN [Outcome(vm, NANOCORE_OK, "none") EXCEPT !.out = <<EVENT_HALTED, 0>>]
    ELSE Outcome(vm, NANOCORE_ERROR, "none")

\* *state = vms[vm_handle]->state.
vm_get_state(vm) ==
    [Outcome(vm, NANOCORE_OK, "none") EXCEPT !.out = <<vm.state>>]

(***************************************************************************)
(* The SimpleVM of test_vm_simple.c: a second, smaller machine of the test *)
(* program, with its own decoder and its own ADD, LD and HALT.             *)
(***************************************************************************)
\* vm_create: calloc leaves pc, gprs, flags and halted zero.  `beyond`
\* holds the bytes stored past the end of the memory buffer, by address.
SimpleNew(memory_size) ==
    [pc          |-> Zero64,
     gprs        |-> [i \in 0..31 |-> Zero64],
     flags       |-> Zero64,
     memory      |-> [a \in 0..(memory_size - 1) |-> 0],
     memory_size |-> memory_size,
     halted      |-> FALSE,
     beyond      |-> <<>>]

\* A result of a SimpleVM function: the machine afterwards, the int
\* returned, and the state of the heap ("intact", "damaged" once a store
\* or a fetch left the buffer, "aborted" when that ended the process).
SimpleOutcome(vm, ret, heap) == [vm |-> vm, ret |-> ret, heap |-> heap]

\* memcpy(vm->memory + address, program, size * sizeof(uint32_t)) byte i.
RECURSIVE SimpleStore(_, _, _, _)
SimpleStore(vm, address, bytes, i) ==
    IF i > Len(bytes) THEN vm
    ELSE LET a == (address + i) - 1
         IN  SimpleStore(
                IF a < vm.memory_size
                THEN [vm EXCEPT !.memory[a] = bytes[i]]
                ELSE [vm EXCEPT !.beyond =
                         [x \in (DOMAIN @) \cup {a} |->
                             IF x = a THEN bytes[i] ELSE @[x]]],
                address, bytes, i + 1)

\* vm_load_program checks nothing: a program that does not fit is stored
\* past the end of the buffer, which damages the heap or ends the process.
simple_vm_load_program(vm, bytes, address) ==
    IF address + Len(bytes) > vm.memory_size
    THEN {SimpleOutcome(SimpleStore(vm, address, bytes, 1), 0, "damaged"),
          SimpleOutcome(vm, 0, "aborted")}
    ELSE {SimpleOutcome(SimpleStore(vm, address, bytes, 1), 0, "intact")}

\* The bytes the fetch can find at address a.
SimpleByteAt(vm, a) ==
    IF a < vm.memory_size THEN {vm.memory[a]}
    ELSE IF a \in DOMAIN vm.beyond THEN {vm.beyond[a]}
    ELSE StrayBytes

\* inst = *(uint32_t*)(vm->memory + vm->pc), as its four bytes, lowest
\* first.
SimpleFetch(vm) ==
    IF IsSmall(vm.pc)
    THEN LET a == ToNat(vm.pc)
         IN  {<<b0, b1, b2, b3>> :
                 b0 \in SimpleByteAt(vm, a), b1 \in SimpleByteAt(vm, a + 1),
                 b2 \in SimpleByteAt(vm, a + 2), b3 \in SimpleByteAt(vm, a + 3)}
    ELSE {<<b0, b1, b2, b3>> : b0 \in StrayBytes, b1 \in StrayBytes,
                               b2 \in StrayBytes, b3 \in StrayBytes}

SimpleOpcode(w) == w[4] \div 4

SimpleRd(w) == ((w[4] % 4) * 8) + (w[3] \div 32)

SimpleRs1(w) == w[3] % 32

SimpleRs2(w) == w[2] \div 8

\* uint16_t imm16 = inst & 0xFFFF, converted to uint64_t without a sign.
SimpleImm(w) == <<w[1], w[2], 0, 0, 0, 0, 0, 0>>

\* The switch of vm_step on the fetched word.
SimpleExecute(vm, w) ==
    LET opcode == SimpleOpcode(w)
        rd     == SimpleRd(w)
        next   == U64Add(vm.pc, U64Of(4))
    IN  CASE opcode = 0 ->
               [vm  |-> [vm EXCEPT
                           !.gprs[rd] = IF rd # 0
                                        THEN U64Add(vm.gprs[SimpleRs1(w)],
                                                    vm.gprs[SimpleRs2(w)])
                                        ELSE @,
                           !.pc = next],
                ret |-> 0]
          [] opcode = 15 ->
               [vm  |-> [vm EXCEPT
                           !.gprs[rd] = IF rd # 0 THEN SimpleImm(w) ELSE @,
                           !.pc = next],
                ret |-> 0]
          [] opcode = 33 -> [vm |-> [vm EXCEPT !.halted = TRUE], ret |-> 0]
          [] OTHER -> [vm |-> vm, ret |-> -1]

\* vm_step.  A fetch outside the buffer finds what was stored there, or
\* whatever else is there, or ends the process.
simple_vm_step(vm, heap) ==
    IF vm.halted THEN {SimpleOutcome(vm, 0, heap)}
    ELSE LET inside == IsSmall(vm.pc) /\ ToNat(vm.pc) + 4 <= vm.memory_size
             done   == {SimpleExecute(vm, w) : w \in SimpleFetch(vm)}
         IN  IF inside
             THEN {SimpleOutcome(d.vm, d.ret, heap) : d \in done}
             ELSE {SimpleOutcome(d.vm, d.ret, "damaged") : d \in done}
                  \cup {SimpleOutcome(vm, 0, "aborted")}

\* vm_run from `steps` steps done: the number of steps, or -1 as soon as a
\* step returns a negative value.
RECURSIVE simple_run_loop(_, _, _, _)
simple_run_loop(vm, heap, steps, max_steps) ==
    IF ~vm.halted /\ steps < max_steps
    THEN UNION {IF o.heap = "aborted" THEN {o}
                ELSE IF o.ret < 0 THEN {SimpleOutcome(o.vm, -1, o.heap)}
                ELSE simple_run_loop(o.vm, o.heap, steps + 1, max_steps)
                : o \in simple_vm_step(vm, heap)}
    ELSE {SimpleOutcome(vm, steps, heap)}

simple_vm_run(vm, heap, max_steps) == simple_run_loop(vm, heap, 0, max_steps)

(***************************************************************************)
(* The process: the registry, the id counter, and the last call             *)
(***************************************************************************)
VARIABLES
    vms,          \* the registry: slot -> instance or NULL
    next_vm_id,   \* the id the next instance gets
    process,      \* "running"; "corrupt" once a store left a buffer;
                  \* "aborted" once an access ended the process
    call,         \* the last API call: its arguments and what it returned
    simple        \* the test program: its SimpleVM, the state of its heap,
                  \* and the last SimpleVM function it called

vars == <<vms, next_vm_id, process, call, simple>>

\* The most instances the model lets the process create.
MaxVmId == 2

NoCall ==
    [op |-> "none", h |-> -1, ret |-> NANOCORE_OK, address |-> Zero64,
     n |-> 0, data |-> <<>>, null |-> FALSE, out |-> <<>>]

\* The test program before it has created its SimpleVM.
NoSimple ==
    [vm |-> NULL, heap |-> "intact", op |-> "none", n |-> 0, ret |-> 0]

Init ==
    /\ vms = [i \in 0..(NumSlots - 1) |-> NULL]
    /\ next_vm_id = 1
    /\ process = "running"
    /\ call = NoCall
    /\ simple = NoSimple

ValidHandle(h) == h >= 0 /\ h < NumSlots /\ vms[h] # NULL

LiveHandles == {i \in 0..(NumSlots - 1) : vms[i] # NULL}

\* The host holds no instance.
NoInstance == \A i \in 0..(NumSlots - 1) : vms[i] = NULL

\* A call that returns `ret` and changes nothing.
Returns(op, h, ret, address, n, buf) ==
    /\ call' = [op |-> op, h |-> h, ret |-> ret, address |-> address,
                n |-> n, data |-> buf.bytes, null |-> buf.null, out |-> <<>>]
    /\ UNCHANGED <<vms, next_vm_id, process, simple>>

\* Fault injection: every instance shares one processor state, so a call
\* on instance h leaves its registers in the others too.
Ends_SharedState(op, h, o, address, n, buf) ==
    /\ process' = CASE o.fault = "abort"     -> "aborted"
                    [] o.fault = "oob_write" -> "corrupt"
                    [] OTHER                 -> "running"
    /\ vms' = IF o.fault = "abort" THEN vms
              ELSE [i \in DOMAIN vms |->
                      IF i = h THEN o.vm
                      ELSE IF vms[i] = NULL THEN NULL
                      ELSE [vms[i] EXCEPT !.state = o.vm.state]]
    /\ call' = [op |-> IF o.fault = "abort" THEN "abort" ELSE op,
                h |-> h, ret |-> o.ret, address |-> address, n |-> n,
                data |-> buf.bytes, null |-> buf.null, out |-> o.out]
    /\ UNCHANGED <<next_vm_id, simple>>

\* A call on instance h that ends with outcome o.  What the process does
\* after a store outside a buffer, or after an access that ended it, is
\* not defined: the model follows it no further.
Ends(op, h, o, address, n, buf) ==
    /\ process' = CASE o.fault = "abort"     -> "aborted"
                    [] o.fault = "oob_write" -> "corrupt"
                    [] OTHER                 -> "running"
    /\ vms' = IF o.fault = "abort" THEN vms ELSE [vms EXCEPT ![h] = o.vm]
    /\ call' = [op |-> IF o.fault = "abort" THEN "abort" ELSE op,
                h |-> h, ret |-> o.ret, address |-> address, n |-> n,
                data |-> buf.bytes, null |-> buf.null, out |-> o.out]
    /\ UNCHANGED <<next_vm_id, simple>>

NoBuffer == Buffer(<<>>)

\* Fault injection: the search for a free slot that keeps the last one it
\* finds (the loop without its break).
create_within_LastFree(max_id, memory_size, has_handle, alloc_ok) ==
    /\ process = "running"
    /\ next_vm_id <= max_id
    /\ LET full == \A i \in 0..(NumSlots - 1) : vms[i] # NULL
           id   == CHOOSE i \in 0..(NumSlots - 1) :
                      vms[i] = NULL /\ \A k \in (i + 1)..(NumSlots - 1) : vms[k] # NULL
       IN  IF ~has_handle \/ memory_size = 0
           THEN Returns("create", -1, NANOCORE_EINVAL, Zero64, memory_size, NoBuffer)
           ELSE IF full
           THEN Returns("create", -1, NANOCORE_ERROR, Zero64, memory_size, NoBuffer)
           ELSE IF ~alloc_ok
           THEN Returns("create", -1, NANOCORE_ENOMEM, Zero64, memory_size, NoBuffer)
           ELSE /\ vms' = [vms EXCEPT ![id] = NewInstance(memory_size, next_vm_id)]
                /\ next_vm_id' = next_vm_id + 1
                /\ call' = [NoCall EXCEPT !.op = "create", !.h = id,
                                          !.n = memory_size, !.out = <<id>>]
                /\ UNCHANGED <<process, simple>>

\* nanocore_vm_create while fewer than max_id instances have been created.
create_within(max_id, memory_size, has_handle, alloc_ok) ==
    /\ process = "running"
    /\ next_vm_id <= max_id
    /\ LET full == \A i \in 0..(NumSlots - 1) : vms[i] # NULL
           id   == CHOOSE i \in 0..(NumSlots - 1) :
                      vms[i] = NULL /\ \A k \in 0..(i - 1) : vms[k] # NULL
       IN  IF ~has_handle \/ memory_size = 0
           THEN Returns("create", -1, NANOCORE_EINVAL, Zero64, memory_size, NoBuffer)
           ELSE IF full
           THEN Returns("create", -1, NANOCORE_ERROR, Zero64, memory_size, NoBuffer)
           ELSE IF ~alloc_ok
           THEN Returns("create", -1, NANOCORE_ENOMEM, Zero64, memory_size, NoBuffer)
           ELSE /\ vms' = [vms EXCEPT ![id] = NewInstance(memory_size, next_vm_id)]
                /\ next_vm_id' = next_vm_id + 1
                /\ call' = [NoCall EXCEPT !.op = "create", !.h = id,
                                          !.n = memory_size, !.out = <<id>>]
                /\ UNCHANGED <<process, simple>>

nanocore_vm_create(memory_size, has_handle, alloc_ok) ==
    create_within(MaxVmId, memory_size, has_handle, alloc_ok)

\* Fault injection: the destroy that frees the instance and leaves its
\* slot pointing at it.
nanocore_vm_destroy_KeepsSlot(h) ==
    /\ process = "running"
    /\ IF ~ValidHandle(h)
       THEN Returns("destroy", h, NANOCORE_EINVAL, Zero64, 0, NoBuffer)
       ELSE /\ call' = [NoCall EXCEPT !.op = "destroy", !.h = h]
            /\ UNCHANGED <<vms, next_vm_id, process, simple>>

nanocore_vm_destroy(h) ==
    /\ process = "running"
    /\ IF ~ValidHandle(h)
       THEN Returns("destroy", h, NANOCORE_EINVAL, Zero64, 0, NoBuffer)
       ELSE /\ vms' = [vms EXCEPT ![h] = NULL]
            /\ call' = [NoCall EXCEPT !.op = "destroy", !.h = h]
            /\ UNCHANGED <<next_vm_id, process, simple>>

nanocore_vm_reset(h) ==
    /\ process = "running"
    /\ IF ~ValidHandle(h)
       THEN Returns("reset", h, NANOCORE_EINVAL, Zero64, 0, NoBuffer)
       ELSE Ends("reset", h, Outcome(vm_reset(vms[h]), NANOCORE_OK, "none"),
                 Zero64, 0, NoBuffer)

nanocore_vm_step(h) ==
    /\ process = "running"
    /\ IF ~ValidHandle(h)
       THEN Returns("step", h, NANOCORE_EINVAL, Zero64, 0, NoBuffer)
       ELSE \E o \in vm_step(vms[h]) :
                /\ WithinRetired(o.vm)
                /\ Ends("step", h, o, Zero64, 0, NoBuffer)

nanocore_vm_run(h, max_instructions) ==
    /\ process = "running"
    /\ IF ~ValidHandle(h)
       THEN Returns("run", h, NANOCORE_EINVAL, Zero64, max_instructions, NoBuffer)
       ELSE \E o \in vm_run(vms[h], max_instructions) :
                /\ WithinRetired(o.vm)
                /\ Ends("run", h, o, Zero64, max_instructions, NoBuffer)

nanocore_vm_get_register(h, reg_index, has_value) ==
    /\ process = "running"
    /\ IF ~ValidHandle(h) \/ ~has_value
       THEN Returns("get_register", h, NANOCORE_EINVAL, Zero64, reg_index, NoBuffer)
       ELSE Ends("get_register", h, vm_get_register(vms[h], reg_index),
                 Zero64, reg_index, NoBuffer)

nanocore_vm_set_register(h, reg_index, value) ==
    /\ process = "running"
    /\ IF ~ValidHandle(h)
       THEN Returns("set_register", h, NANOCORE_EINVAL, Zero64, reg_index, Buffer(value))
       ELSE Ends("set_register", h, vm_set_register(vms[h], reg_index, value),
                 Zero64, reg_index, Buffer(value))

nanocore_vm_load_program(h, data, address) ==
    /\ process = "running"
    /\ IF ~ValidHandle(h)
       THEN Returns("load_program", h, NANOCORE_EINVAL, address, Len(data.bytes), data)
       ELSE \E o \in vm_load_program(vms[h], data, address) :
                Ends("load_program", h, o, address, Len(data.bytes), data)

nanocore_vm_read_memory(h, address, has_buffer, size) ==
    /\ process = "running"
    /\ IF ~ValidHandle(h) \/ ~has_buffer
       THEN Returns("read_memory", h, NANOCORE_EINVAL, address, size,
                    IF has_buffer THEN NoBuffer ELSE NullBuffer)
       ELSE \E o \in vm_read_memory(vms[h], address, size) :
                Ends("read_memory", h, o, address, size, NoBuffer)

nanocore_vm_write_memory(h, address, data) ==
    /\ process = "running"
    /\ IF ~ValidHandle(h)
       THEN Returns("write_memory", h, NANOCORE_EINVAL, address, Len(data.bytes), data)
       ELSE \E o \in vm_write_memory(vms[h], address, data) :
                Ends("write_memory", h, o, address, Len(data.bytes), data)

nanocore_vm_set_breakpoint(h, address) ==
    /\ process = "running"
    /\ IF ~ValidHandle(h)
       THEN Returns("set_breakpoint", h, NANOCORE_EINVAL, address, 0, NoBuffer)
       ELSE Ends("set_breakpoint", h, vm_set_breakpoint(vms[h], address),
                 address, 0, NoBuffer)

nanocore_vm_clear_breakpoint(h, address) ==
    /\ process = "running"
    /\ IF ~ValidHandle(h)
       THEN Returns("clear_breakpoint", h, NANOCORE_EINVAL, address, 0, NoBuffer)
       ELSE Ends("clear_breakpoint", h, vm_clear_breakpoint(vms[h], address),
                 address, 0, NoBuffer)

nanocore_vm_get_perf_counter(h, counter_index, has_value) ==
    /\ process = "running"
    /\ IF ~ValidHandle(h) \/ ~has_value
       THEN Returns("get_perf_counter", h, NANOCORE_EINVAL, Zero64, counter_index, NoBuffer)
       ELSE Ends("get_perf_counter", h, vm_get_perf_counter(vms[h], counter_index),
                 Zero64, counter_index, NoBuffer)

nanocore_vm_poll_event(h, has_event) ==
    /\ process = "running"
    /\ IF ~ValidHandle(h) \/ ~has_event
       THEN Returns("poll_event", h, NANOCORE_EINVAL, Zero64, 0, NoBuffer)
       ELSE Ends("poll_event", h, vm_poll_event(vms[h]), Zero64, 0, NoBuffer)

nanocore_vm_get_state(h, has_state) ==
    /\ process = "running"
    /\ IF ~ValidHandle(h) \/ ~has_state
       THEN Returns("get_state", h, NANOCORE_EINVAL, Zero64, 0, NoBuffer)
       ELSE Ends("get_state", h, vm_get_state(vms[h]), Zero64, 0, NoBuffer)

(***************************************************************************)
(* The test program's calls of the SimpleVM functions                      *)
(***************************************************************************)
\* A call of a SimpleVM function that ends with outcome o.
SimpleEnds(op, n, o) ==
    /\ simple' = [vm   |-> IF o.heap = "aborted" THEN simple.vm ELSE o.vm,
                  heap |-> o.heap,
                  op   |-> IF o.heap = "aborted" THEN "abort" ELSE op,
                  n    |-> n,
                  ret  |-> o.ret]
    /\ UNCHANGED <<vms, next_vm_id, process, call>>

simple_create(memory_size) ==
    /\ simple.heap # "aborted"
    /\ simple.vm = NULL
    /\ SimpleEnds("create", memory_size,
                  SimpleOutcome(SimpleNew(memory_size), 0, simple.heap))

\* vm_destroy: free on a damaged heap goes through or ends the process.
simple_destroy ==
    /\ simple.heap # "aborted"
    /\ simple.vm # NULL
    /\ \E o \in {SimpleOutcome(NULL, 0, simple.heap)}
                 \cup (IF simple.heap = "damaged"
                       THEN {SimpleOutcome(NULL, 0, "aborted")} ELSE {}) :
          SimpleEnds("destroy", 0, o)

simple_load_program(bytes, address) ==
    /\ simple.heap # "aborted"
    /\ simple.vm # NULL
    /\ \E o \in simple_vm_load_program(simple.vm, bytes, address) :
          SimpleEnds("load_program", address,
                     [o EXCEPT !.heap = IF simple.heap = "damaged"
                                        THEN IF @ = "aborted" THEN @ ELSE "damaged"
                                        ELSE @])

\* main's vm->pc = address.
simple_set_pc(address) ==
    /\ simple.heap # "aborted"
    /\ simple.vm # NULL
    /\ SimpleEnds("set_pc", address,
                  SimpleOutcome([simple.vm EXCEPT !.pc = U64Of(address)], 0,
                                simple.heap))

simple_step ==
    /\ simple.heap # "aborted"
    /\ simple.vm # NULL
    /\ \E o \in simple_vm_step(simple.vm, simple.heap) :
          SimpleEnds("step", 0, o)

simple_run(max_steps) ==
    /\ simple.heap # "aborted"
    /\ simple.vm # NULL
    /\ \E o \in simple_vm_run(simple.vm, simple.heap, max_steps) :
          SimpleEnds("run", max_steps, o)

(***************************************************************************)
(* Instruction words the host loads                                         *)
(***************************************************************************)
\* The word with these fields; imm is the 16-bit pattern.
Word(opcode, rd, rs1, imm) ==
    <<imm % 256, imm \div 256, ((rd % 8) * 32) + rs1, (opcode * 4) + (rd \div 8)>>

\* A three-register word: rs2 sits in bits [15:11].
RWord(opcode, rd, rs1, rs2) == Word(opcode, rd, rs1, rs2 * 2048)

\* The 16-bit pattern of a negative immediate -k.
Neg(k) == 65536 - k

\* Every register-writing opcode aimed at register 0, with sources R1, R2.
WordsToR0 ==
    {RWord(op, 0, 1, 2) : op \in {0, 1, 2, 4, 5, 6, 7, 8, 10, 11}}
    \cup {Word(15, 0, 0, 42)}                         \* LD R0, 42

WordsExec ==
    WordsToR0
    \cup {Word(19, 1, 0, 0),                          \* ST R1, [R0 + 0]
          Word(19, 1, 0, 4),                          \* ST R1, [R0 + 4]
          Word(19, 1, 0, Neg(4)),                     \* ST R1, [R0 - 4]
          Word(33, 0, 0, 0),                          \* HALT
          Word(34, 0, 0, 0),                          \* NOP
          Word(63, 0, 0, 0)}                          \* opcode 0x3F

M64 == U64Sub(Zero64, U64Of(1))

(***************************************************************************)
(* Spec: one instance of 8 bytes; the host creates, destroys and resets    *)
(* it, sets registers, loads single words at address 0, steps and runs.    *)
(***************************************************************************)
Next ==
    \/ NoInstance /\ \E size \in {0, 8}, ok \in BOOLEAN :
                        nanocore_vm_create(size, TRUE, ok)
    \/ nanocore_vm_destroy(0)
    \/ nanocore_vm_reset(0)
    \/ nanocore_vm_step(0)
    \/ \E n \in {0, 1} : nanocore_vm_run(0, n)
    \/ \E r \in {0, 1, 2} : nanocore_vm_set_register(0, r, U64Of(7))
    \/ \E w \in WordsExec : nanocore_vm_load_program(0, Buffer(w), Zero64)

Spec == Init /\ [][Next]_vars

(***************************************************************************)
(* SpecDebug: one instance of 8 bytes under a debugger; the host loads NOP  *)
(* or HALT at 0, writes HALT at 4, sets and clears the breakpoint at 4,    *)
(* sets a register, steps, runs and resets.                                *)
(***************************************************************************)
\* The most breakpoints the host of SpecDebug keeps set.
MaxBreakpoints == 2

WordsDebug == {Word(34, 0, 0, 0), Word(33, 0, 0, 0)}       \* NOP, HALT

BreakAddresses == {U64Of(4)}

NextDebug ==
    \/ NoInstance /\ nanocore_vm_create(8, TRUE, TRUE)
    \/ nanocore_vm_destroy(0)
    \/ nanocore_vm_reset(0)
    \/ nanocore_vm_step(0)
    \/ nanocore_vm_run(0, 0)
    \/ nanocore_vm_set_register(0, 1, U64Of(7))
    \/ \E w \in WordsDebug : nanocore_vm_load_program(0, Buffer(w), Zero64)
    \/ nanocore_vm_write_memory(0, U64Of(4), Buffer(Word(33, 0, 0, 0)))
    \/ \E a \in BreakAddresses :
          /\ vms[0] # NULL => vms[0].num_breakpoints < MaxBreakpoints
          /\ nanocore_vm_set_breakpoint(0, a)
    \/ \E a \in BreakAddresses : nanocore_vm_clear_breakpoint(0, a)

SpecDebug == Init /\ [][NextDebug]_vars

(***************************************************************************)
(* SpecMem: one instance of 4 bytes; the host writes and reads windows of  *)
(* up to two bytes at the start, at the end, past the end and at the top   *)
(* of the address range.                                                    *)
(***************************************************************************)
AddressesMem == {Zero64, U64Of(3), U64Of(4), M64}

DataMem == {<<>>, <<17>>, <<34, 51>>}

NextMem ==
    \/ NoInstance /\ nanocore_vm_create(4, TRUE, TRUE)
    \/ nanocore_vm_destroy(0)
    \/ \E a \in AddressesMem, d \in DataMem :
          nanocore_vm_write_memory(0, a, Buffer(d))
    \/ nanocore_vm_write_memory(0, Zero64, NullBuffer)
    \/ \E a \in AddressesMem, n \in 0..2, has_buffer \in BOOLEAN :
          nanocore_vm_read_memory(0, a, has_buffer, n)

SpecMem == Init /\ [][NextMem]_vars

(***************************************************************************)
(* SpecIso: two instances of 8 bytes.  The host steps, runs, resets, loads, *)
(* writes and sets breakpoints on handle 0, sets a register of handle 1,   *)
(* and destroys either.                                                     *)
(***************************************************************************)
NextIso ==
    \/ (vms[0] = NULL \/ vms[1] = NULL) /\ nanocore_vm_create(8, TRUE, TRUE)
    \/ \E h \in {0, 1} : nanocore_vm_destroy(h)
    \/ nanocore_vm_set_register(1, 1, U64Of(7))
    \/ nanocore_vm_reset(0)
    \/ nanocore_vm_step(0)
    \/ nanocore_vm_run(0, 0)
    \/ nanocore_vm_load_program(0, Buffer(Word(15, 2, 0, 5)), Zero64)
    \/ \E a \in {U64Of(4), M64} :
          nanocore_vm_write_memory(0, a, Buffer(<<17, 34>>))
    \/ /\ vms[0] # NULL => vms[0].num_breakpoints < MaxBreakpoints
       /\ nanocore_vm_set_breakpoint(0, U64Of(4))
    \/ nanocore_vm_clear_breakpoint(0, U64Of(4))

SpecIso == Init /\ [][NextIso]_vars

(***************************************************************************)
(* SpecRun: one instance of 12 bytes; the host loads three-word programs,  *)
(* sets the breakpoint at 8, steps, resets, and runs with budgets 0..3.    *)
(***************************************************************************)
\* NOP NOP HALT; NOP <0x3F> NOP; NOP NOP NOP (runs off the end).
ProgramsRun ==
    {Word(34, 0, 0, 0) \o Word(34, 0, 0, 0) \o Word(33, 0, 0, 0),
     Word(34, 0, 0, 0) \o Word(63, 0, 0, 0) \o Word(34, 0, 0, 0),
     Word(34, 0, 0, 0) \o Word(34, 0, 0, 0) \o Word(34, 0, 0, 0)}

\* The budgets the host of SpecRun passes to nanocore_vm_run.
Budgets == 0..3

NextRun ==
    \/ NoInstance /\ nanocore_vm_create(12, TRUE, TRUE)
    \/ nanocore_vm_reset(0)
    \/ nanocore_vm_step(0)
    \/ \E n \in Budgets : nanocore_vm_run(0, n)
    \/ \E p \in ProgramsRun : nanocore_vm_load_program(0, Buffer(p), Zero64)
    \/ /\ vms[0] # NULL => vms[0].num_breakpoints < MaxBreakpoints
       /\ nanocore_vm_set_breakpoint(0, U64Of(8))

SpecRun == Init /\ [][NextRun]_vars

(***************************************************************************)
(* SpecFetch: one instance of 8 bytes; the host loads one word at 0, 2 or  *)
(* 4 (which sets the pc there), steps, runs one instruction and resets.    *)
(***************************************************************************)
\* NOP; BEQ R0, R0, +1 (pc + 2 - 4 after the increment); BEQ R0, R0, -1.
WordsFetch ==
    {Word(34, 0, 0, 0), Word(23, 0, 0, 1), Word(23, 0, 0, Neg(1))}

AddressesFetch == {Zero64, U64Of(2), U64Of(4)}

NextFetch ==
    \/ NoInstance /\ nanocore_vm_create(8, TRUE, TRUE)
    \/ nanocore_vm_reset(0)
    \/ nanocore_vm_step(0)
    \/ nanocore_vm_run(0, 1)
    \/ \E w \in WordsFetch, a \in AddressesFetch :
          nanocore_vm_load_program(0, Buffer(w), a)

SpecFetch == Init /\ [][NextFetch]_vars

(***************************************************************************)
(* SpecHandles: the host creates an instance of 8 bytes when it holds      *)
(* none, and calls every other operation with a handle that is negative,   *)
(* the lowest slot (live, not yet issued, or destroyed), a slot never      *)
(* issued, or past the registry.                                           *)
(***************************************************************************)
Handles == {-1, 0, 1, NumSlots}

NextHandles ==
    \/ NoInstance /\ nanocore_vm_create(8, TRUE, TRUE)
    \/ \E h \in Handles :
          \/ nanocore_vm_destroy(h)
          \/ nanocore_vm_reset(h)
          \/ nanocore_vm_step(h)
          \/ nanocore_vm_run(h, 1)
          \/ nanocore_vm_get_state(h, TRUE)
          \/ nanocore_vm_get_register(h, 1, TRUE)
          \/ nanocore_vm_set_register(h, 1, U64Of(7))
          \/ nanocore_vm_load_program(h, Buffer(Word(34, 0, 0, 0)), Zero64)
          \/ nanocore_vm_read_memory(h, Zero64, TRUE, 1)
          \/ nanocore_vm_write_memory(h, U64Of(3), Buffer(<<136>>))
          \/ /\ ValidHandle(h) => vms[h].num_breakpoints = 0
             /\ nanocore_vm_set_breakpoint(h, U64Of(4))
          \/ nanocore_vm_clear_breakpoint(h, U64Of(4))
          \/ nanocore_vm_get_perf_counter(h, 0, TRUE)
          \/ nanocore_vm_poll_event(h, TRUE)

SpecHandles == Init /\ [][NextHandles]_vars

(***************************************************************************)
(* SpecRegistry: the host creates one-byte instances until the registry    *)
(* is full and past that; once it has filled the registry it destroys the  *)
(* instances of three slots and creates again.                             *)
(***************************************************************************)
\* The most instances the host of SpecRegistry creates: enough to fill the
\* registry and to fill a freed slot again.
MaxRegistryId == 258

SlotsDestroyed == {0, 1, NumSlots - 1}

NextRegistry ==
    \/ create_within(MaxRegistryId, 1, TRUE, TRUE)
    \/ next_vm_id > NumSlots /\ \E h \in SlotsDestroyed : nanocore_vm_destroy(h)

SpecRegistry == Init /\ [][NextRegistry]_vars

(***************************************************************************)
(* SpecBreak: one instance of 8 bytes; the host sets the breakpoint at 4   *)
(* again and again, clears it, and resets.                                 *)
(***************************************************************************)
NextBreak ==
    \/ NoInstance /\ nanocore_vm_create(8, TRUE, TRUE)
    \/ nanocore_vm_reset(0)
    \/ nanocore_vm_set_breakpoint(0, U64Of(4))
    \/ nanocore_vm_clear_breakpoint(0, U64Of(4))

SpecBreak == Init /\ [][NextBreak]_vars

(***************************************************************************)
(* SpecScenario: one instance with 16 bytes from the default entry point   *)
(* on; the host loads the LD + ADD program there, steps, runs, resets and  *)
(* destroys.                                                               *)
(***************************************************************************)
\* LD R1, 5; LD R2, 10; ADD R3, R1, R2; HALT.
ProgramLdAdd ==
    Word(15, 1, 0, 5) \o Word(15, 2, 0, 10) \o RWord(0, 3, 1, 2)
        \o Word(33, 0, 0, 0)

NextScenario ==
    \/ NoInstance /\ nanocore_vm_create(EntryPoint + 16, TRUE, TRUE)
    \/ nanocore_vm_destroy(0)
    \/ nanocore_vm_reset(0)
    \/ nanocore_vm_step(0)
    \/ \E n \in {0, 2} : nanocore_vm_run(0, n)
    \/ nanocore_vm_load_program(0, Buffer(ProgramLdAdd), U64Of(EntryPoint))

SpecScenario == Init /\ [][NextScenario]_vars

(***************************************************************************)
(* SpecTest: the test program.  main creates a SimpleVM of 64 KiB, loads   *)
(* its four words at 0x10000, sets the pc there and runs 10 steps; the     *)
(* model also lets it take a SimpleVM 16 bytes larger, load the words of   *)
(* ProgramLdAdd instead, step, run one step, and destroy.                  *)
(***************************************************************************)
\* The bytes of a uint32_t in the memory of the little-endian host, given
\* from its highest byte down as the test writes its words.
LE32(b3, b2, b1, b0) == <<b0, b1, b2, b3>>

\* 0x3C200005, 0x3C40000A, 0x00614000, 0x84000000.
TestProgram ==
    LE32(60, 32, 0, 5) \o LE32(60, 64, 0, 10) \o LE32(0, 97, 64, 0)
        \o LE32(132, 0, 0, 0)

SimpleMemorySize == 65536

TestAddress == 65536

TestMaxSteps == 10

\* The test steps and runs a SimpleVM whose pc is within the four words at
\* TestAddress, the last of which is a HALT.
TestReady ==
    /\ simple.vm # NULL
    /\ IsSmall(simple.vm.pc)
    /\ ToNat(simple.vm.pc) \in TestAddress..(TestAddress + 12)
    /\ SimpleByteAt(simple.vm, TestAddress + 15) = {132}

NextTest ==
    \/ \E size \in {SimpleMemorySize, SimpleMemorySize + 16} : simple_create(size)
    \/ simple_destroy
    \/ \E p \in {TestProgram, ProgramLdAdd} : simple_load_program(p, TestAddress)
    \/ simple_set_pc(TestAddress)
    \/ TestReady /\ simple_step
    \/ TestReady /\ \E n \in {1, TestMaxSteps} : simple_run(n)

SpecTest == Init /\ [][NextTest]_vars

(***************************************************************************)
(* SpecBranch: one instance of 8 bytes; the host sets R1 and R2, loads a   *)
(* NOP followed by a branch on R1 and R2 at 0, steps and resets.           *)
(***************************************************************************)
\* BEQ, BNE and BLT on R1, R2 with displacements 4, -2, 32767 and -32768.
WordsBranch ==
    {Word(op, 1, 2, imm) : op \in {23, 24, 25}, imm \in {4, Neg(2), 32767, 32768}}

ValuesBranch == {U64Of(7), M64}

NextBranch ==
    \/ NoInstance /\ nanocore_vm_create(8, TRUE, TRUE)
    \/ nanocore_vm_reset(0)
    \/ nanocore_vm_step(0)
    \/ \E r \in {1, 2}, v \in ValuesBranch : nanocore_vm_set_register(0, r, v)
    \/ \E w \in WordsBranch :
          nanocore_vm_load_program(0, Buffer(Word(34, 0, 0, 0) \o w), Zero64)

SpecBranch == Init /\ [][NextBranch]_vars

(***************************************************************************)
(* SpecDiv: one instance of 8 bytes; the host sets R1 and R2, loads a DIV  *)
(* or MOD of R1 by R2 at 0, steps and resets.                              *)
(***************************************************************************)
\* DIV and MOD of R1 by R2 into R3 and into R0.
WordsDiv == {RWord(op, rd, 1, 2) : op \in {4, 5}, rd \in {0, 3}}

\* What the host writes to R1 and R2; a reset makes them 0 again.
ValuesDiv == {U64Of(7), M64}

NextDiv ==
    \/ NoInstance /\ nanocore_vm_create(8, TRUE, TRUE)
    \/ nanocore_vm_reset(0)
    \/ nanocore_vm_step(0)
    \/ \E r \in {1, 2}, v \in ValuesDiv : nanocore_vm_set_register(0, r, v)
    \/ \E w \in WordsDiv : nanocore_vm_load_program(0, Buffer(w), Zero64)

SpecDiv == Init /\ [][NextDiv]_vars

(***************************************************************************)
(* SpecAgree: an FFI instance and a SimpleVM of 12 bytes each.  The host   *)
(* loads the same three-word programs of LD, ADD and HALT at 0 into either *)
(* and runs them to the end; it resets the one and recreates the other.    *)
(* The pc of a new SimpleVM is 0, where nanocore_vm_load_program puts the  *)
(* pc of the instance.                                                     *)
(***************************************************************************)
AgreeMemorySize == 12

\* LD R1, 5; ADD R3, R1, R1; HALT, the same with the most negative
\* immediate, and LD R1 of the all-ones immediate (with a non-zero rs1
\* field); LD R0, 7; HALT.
ProgramsAgree ==
    {Word(15, 1, 0, 5) \o RWord(0, 3, 1, 1) \o Word(33, 0, 0, 0),
     Word(15, 1, 0, 32768) \o RWord(0, 3, 1, 1) \o Word(33, 0, 0, 0),
     Word(15, 1, 31, 65535) \o Word(15, 0, 0, 7) \o Word(33, 0, 0, 0)}

\* The host prepares the instance first (create, load, reset) and the
\* SimpleVM after it, with the program the instance holds, and runs the
\* SimpleVM once it holds a program.
NextAgree ==
    \/ NoInstance /\ nanocore_vm_create(AgreeMemorySize, TRUE, TRUE)
    \/ simple.vm = NULL /\ nanocore_vm_reset(0)
    \/ nanocore_vm_run(0, 0)
    \/ \E p \in ProgramsAgree :
          simple.vm = NULL /\ nanocore_vm_load_program(0, Buffer(p), Zero64)
    \/ ValidHandle(0) /\ simple_create(AgreeMemorySize)
    \/ simple_destroy
    \/ \E p \in ProgramsAgree :
          /\ ValidHandle(0)
          /\ \A i \in 1..Len(p) : vms[0].memory[i - 1] = p[i]
          /\ simple_load_program(p, 0)
    \/ /\ simple.vm # NULL
       /\ \E p \in ProgramsAgree :
             \A i \in 1..Len(p) : simple.vm.memory[i - 1] = p[i]
       /\ simple_run(TestMaxSteps)

SpecAgree == Init /\ [][NextAgree]_vars

(***************************************************************************)
(* What a step executes                                                     *)
(***************************************************************************)
\* The opcodes execute_instruction has a case for.
DefinedOpcodes == {0, 1, 2, 4, 5, 6, 7, 8, 10, 11, 15, 19, 23, 24, 25, 33, 34}

\* Whether a step of vm gets as far as executing the word at pc, the fetch
\* staying in the buffer: not halted, pc + 4 within memory_size, no
\* breakpoint at pc.
Executes(vm) ==
    /\ ~vm.halted
    /\ U64Le(U64Add(vm.state.pc, U64Of(4)), U64Of(vm.memory_size))
    /\ ~AtBreakpoint(vm)
    /\ ~LeavesBuffer(vm, vm.state.pc, 4)

\* The word that step executes.
ExecutedWord(vm) ==
    LET p == ToNat(vm.state.pc)
    IN  <<vm.memory[p], vm.memory[p + 1], vm.memory[p + 2], vm.memory[p + 3]>>

\* The address an ST word stores to: gprs[rs1] + sign-extended imm16, with
\* register 0 read as zero.
StoreAddress(vm, w) ==
    U64Add(IF Rs1(w) = 0 THEN Zero64 ELSE vm.state.gprs[Rs1(w)],
           SignExtend16(Imm(w)))

\* The step from this state to the next is a call of nanocore_vm_step on
\* the live handle h that returned, and it executed a word.
StepExecuted(h) ==
    /\ call'.op = "step"
    /\ call'.h = h
    /\ ValidHandle(h)
    /\ Executes(vms[h])

(***************************************************************************)
(* Claims checked under Spec                                                *)
(***************************************************************************)
\* C1: in every reachable state, register 0 of every live instance is zero,
\* whatever was created, reset, loaded, stepped, run or written with
\* vm_set_register; and vm_set_register on index 0 of a live instance
\* returns OK.
C1_R0Zero ==
    /\ \A h \in LiveHandles : vms[h].state.gprs[0] = Zero64
    /\ (call.op = "set_register" /\ call.n = 0 /\ ValidHandle(call.h))
          => call.ret = NANOCORE_OK

\* A step has just executed LD R0, 42 with R1 holding 7.
C1_Witness ==
    /\ ValidHandle(0)
    /\ call.op = "step" /\ call.h = 0 /\ call.ret = NANOCORE_OK
    /\ vms[0].state.pc = U64Of(4)
    /\ <<vms[0].memory[0], vms[0].memory[1], vms[0].memory[2], vms[0].memory[3]>>
          = Word(15, 0, 0, 42)
    /\ vms[0].state.gprs[1] = U64Of(7)

\* C2: perf_counters[0] does not decrease except by a reset, and a step
\* adds one to it exactly when it executes a word with a defined opcode
\* (HALT and NOP included); a step that stops at a breakpoint, faults at
\* the fetch, finds the instance halted or traps on an unknown opcode adds
\* nothing.
C2_RetiredCount ==
    [][\A h \in 0..(NumSlots - 1) :
          (vms[h] # NULL /\ vms'[h] # NULL /\ call'.op \in {"step", "run"}
             /\ call'.h = h)
          => LET before == vms[h].state.perf_counters[0]
                 after  == vms'[h].state.perf_counters[0]
             IN  /\ U64Le(before, after)
                 /\ call'.op = "step" =>
                       after = IF Executes(vms[h])
                                  /\ Opcode(ExecutedWord(vms[h])) \in DefinedOpcodes
                               THEN U64Add(before, U64Of(1))
                               ELSE before]_vars

\* C9: a step that executes an ST whose eight bytes do not all lie below
\* memory_size leaves memory unchanged, halts the instance and does not
\* return OK.
C9_StoreFault ==
    [][\A h \in 0..(NumSlots - 1) :
          (StepExecuted(h)
             /\ Opcode(ExecutedWord(vms[h])) = 19
             /\ LeavesBuffer(vms[h], StoreAddress(vms[h], ExecutedWord(vms[h])), 8))
          => /\ vms'[h].memory = vms[h].memory
             /\ vms'[h].halted
             /\ call'.ret # NANOCORE_OK]_vars

\* C10: a step that executes a word whose opcode is not a defined one
\* returns EVENT_EXCEPTION, halts the instance and leaves perf_counters[0]
\* and perf_counters[1] unchanged.
C10_UnknownOpcode ==
    [][\A h \in 0..(NumSlots - 1) :
          (StepExecuted(h)
             /\ Opcode(ExecutedWord(vms[h])) \notin DefinedOpcodes)
          => /\ call'.ret = EVENT_EXCEPTION
             /\ vms'[h].halted
             /\ vms'[h].state.perf_counters[0] = vms[h].state.perf_counters[0]
             /\ vms'[h].state.perf_counters[1] = vms[h].state.perf_counters[1]]_vars

(***************************************************************************)
(* Claims checked under SpecDebug                                           *)
(***************************************************************************)
\* Bit 7 (0x80) of the flags word.
HaltFlagSet(vm) == (vm.state.flags[1] \div 128) % 2 = 1

\* What a step or run of a halted instance yields: EVENT_HALTED and the
\* instance as it was.
StaysHalted(vm) == {Outcome(vm, EVENT_HALTED, "none")}

\* C3: a step that executes HALT leaves the instance halted with flags bit
\* 7 set; every step and every run of a halted instance returns
\* EVENT_HALTED and changes nothing of the instance; and a halted instance
\* stays halted through every call but vm_reset (load_program,
\* set_register, write_memory, set_breakpoint, clear_breakpoint included).
C3_HaltedStays ==
    /\ [](\A h \in LiveHandles :
            vms[h].halted =>
               /\ vm_step(vms[h]) = StaysHalted(vms[h])
               /\ \A n \in 0..2 : vm_run(vms[h], n) = StaysHalted(vms[h]))
    /\ [][\A h \in 0..(NumSlots - 1) :
             /\ (StepExecuted(h) /\ Opcode(ExecutedWord(vms[h])) = 33)
                   => vms'[h].halted /\ HaltFlagSet(vms'[h])
             /\ (vms[h] # NULL /\ vms[h].halted /\ call'.h = h
                    /\ call'.op \in {"step", "run"})
                   => call'.ret = EVENT_HALTED /\ vms'[h] = vms[h]
             /\ (vms[h] # NULL /\ vms[h].halted /\ vms'[h] # NULL
                    /\ call'.op # "reset")
                   => vms'[h].halted]_vars

\* HALT was executed at 0, and a later step of the halted instance came
\* back with EVENT_HALTED.
C3_Witness ==
    /\ ValidHandle(0)
    /\ vms[0].halted /\ HaltFlagSet(vms[0])
    /\ ExecutedWord([vms[0] EXCEPT !.state.pc = Zero64]) = Word(33, 0, 0, 0)
    /\ vms[0].state.pc = U64Of(4)
    /\ vms[0].state.gprs[1] = U64Of(7)
    /\ call.op = "step" /\ call.h = 0 /\ call.ret = EVENT_HALTED

\* C4: a step of an instance that is not halted, whose pc is one of its
\* breakpoints with pc + 4 <= memory_size, returns EVENT_BREAKPOINT and
\* leaves the whole instance as it was; and when a step or a run has
\* returned EVENT_BREAKPOINT, pc is at a breakpoint and the instance is not
\* halted.
C4_BreakpointStops ==
    /\ \A h \in LiveHandles :
          (/\ ~vms[h].halted
           /\ AtBreakpoint(vms[h])
           /\ IsSmall(vms[h].state.pc)
           /\ ToNat(vms[h].state.pc) + 4 <= vms[h].memory_size)
          => vm_step(vms[h]) = {Outcome(vms[h], EVENT_BREAKPOINT, "none")}
    /\ (call.op \in {"step", "run"} /\ call.ret = EVENT_BREAKPOINT
          /\ ValidHandle(call.h))
          => AtBreakpoint(vms[call.h]) /\ ~vms[call.h].halted

\* A run executed the word at 0 and stopped at the breakpoint at 4.
C4_Witness ==
    /\ ValidHandle(0)
    /\ call.op = "run" /\ call.h = 0 /\ call.ret = EVENT_BREAKPOINT
    /\ vms[0].state.pc = U64Of(4)
    /\ vms[0].state.perf_counters[0] = U64Of(1)
    /\ ~vms[0].halted

\* C5: when a step or a run has returned EVENT_BREAKPOINT, the next step
\* (pc still at the breakpoint, the breakpoint still set) does not return
\* EVENT_BREAKPOINT again: it executes the word at pc.
C5_StepResumes ==
    \A h \in LiveHandles :
       (call.op \in {"step", "run"} /\ call.h = h
          /\ call.ret = EVENT_BREAKPOINT /\ AtBreakpoint(vms[h]))
       => \A o \in vm_step(vms[h]) :
             o.ret # EVENT_BREAKPOINT /\ o.vm # vms[h]

\* C8: for every live instance, resetting it twice gives the instance that
\* resetting it once gives (processor state, halted flag, breakpoints,
\* memory).
C8_ResetIdempotent ==
    \A h \in LiveHandles : vm_reset(vm_reset(vms[h])) = vm_reset(vms[h])

\* A reset has just returned on an instance that had run a program and had
\* a breakpoint set: the program is still in memory, the breakpoint's
\* address still in the array.
C8_Witness ==
    /\ ValidHandle(0)
    /\ call.op = "reset" /\ call.h = 0 /\ call.ret = NANOCORE_OK
    /\ vms[0].breakpoints[0] = U64Of(4)
    /\ vms[0].num_breakpoints = 0
    /\ vms[0].memory[3] # 0
    /\ vms[0].state.pc = U64Of(EntryPoint)

InWindow(vm, address, n) ==
    IsSmall(address) /\ ToNat(address) + n <= vm.memory_size

\* The n bytes of the buffer from offset p on.
Window(vm, p, n) == [i \in 1..n |-> vm.memory[p + i - 1]]

\* C7: for every window inside the buffer, vm_write_memory returns OK,
\* puts its bytes in the window and changes no byte outside it; and
\* vm_read_memory of the same window returns OK with exactly the bytes
\* written.
C7_RoundTrip ==
    /\ []((call.op = "write_memory" /\ ValidHandle(call.h) /\ ~call.null
             /\ InWindow(vms[call.h], call.address, Len(call.data)))
          => /\ call.ret = NANOCORE_OK
             /\ vm_read_memory(vms[call.h], call.address, Len(call.data))
                  = {[Outcome(vms[call.h], NANOCORE_OK, "none")
                         EXCEPT !.out = call.data]})
    /\ []((call.op = "read_memory" /\ ValidHandle(call.h) /\ ~call.null
             /\ InWindow(vms[call.h], call.address, call.n))
          => /\ call.ret = NANOCORE_OK
             /\ call.out = Window(vms[call.h], ToNat(call.address), call.n))
    /\ [][(call'.op = "write_memory" /\ ValidHandle(call'.h) /\ ~call'.null
             /\ InWindow(vms[call'.h], call'.address, Len(call'.data)))
          => LET h == call'.h
                 p == ToNat(call'.address)
                 n == Len(call'.data)
             IN  /\ vms'[h] = [vms[h] EXCEPT !.memory = vms'[h].memory]
                 /\ \A a \in DOMAIN vms[h].memory :
                       vms'[h].memory[a] =
                          IF a >= p /\ a < p + n
                          THEN call'.data[(a - p) + 1]
                          ELSE vms[h].memory[a]]_vars

\* The bytes 34, 51 written at 0 have just been read back, with the byte
\* 17 written at 3 still there.
C7_Witness ==
    /\ ValidHandle(0)
    /\ call.op = "read_memory" /\ call.h = 0 /\ call.ret = NANOCORE_OK
    /\ call.address = Zero64 /\ call.n = 2
    /\ call.out = <<34, 51>>
    /\ vms[0].memory[3] = 17

(***************************************************************************)
(* Halting and the halt flag                                                *)
(***************************************************************************)
\* C11: in every reachable state, a halted instance has flags bit 7 (0x80)
\* set, whichever way it was halted: HALT, an unknown opcode, or a pc out
\* of range at the fetch.
C11_HaltedHasFlag ==
    \A h \in LiveHandles : vms[h].halted => HaltFlagSet(vms[h])


(***************************************************************************)
(* Bounded runs                                                            *)
(***************************************************************************)
\* A step outcome at which the loop of nanocore_vm_run stops: the step
\* returned non-OK or left the instance halted.
Stops(o) == o.vm.halted \/ o.ret # NANOCORE_OK

\* The instances reached from vm by exactly k steps none of which stops.
RECURSIVE Going(_, _)
Going(vm, k) ==
    IF k = 0 THEN {vm}
    ELSE UNION {{o.vm : o \in {s \in vm_step(v) : ~Stops(s) /\ s.fault = "none"}}
                : v \in {g \in Going(vm, k - 1) : WithinRetired(g)}}

\* The outcomes of nanocore_vm_run(vm, n) that stay within the bound on
\* retired instructions and within the buffers.
Runs(vm, n) ==
    {o \in vm_run(vm, n) : o.fault = "none" /\ WithinRetired(o.vm)}

\* o is what a chain of steps from vm gives: k steps that do not stop,
\* then either the budget n is used up, or one more step that stops, whose
\* non-OK result run returns (HALTED when that step returned OK).
ChainOf(vm, n, o) ==
    \E k \in 0..(MaxRetired + 1) : \E v \in Going(vm, k) :
        \/ n > 0 /\ k = n /\ o.vm = v /\ o.ret = NANOCORE_OK
        \/ /\ n = 0 \/ k < n
           /\ \E s \in vm_step(v) :
                /\ Stops(s)
                /\ o.vm = s.vm
                /\ o.ret = IF s.ret # NANOCORE_OK THEN s.ret ELSE EVENT_HALTED

\* C12: nanocore_vm_run(h, n) with n > 0 retires at most n instructions
\* (perf_counters[0] grows by at most n); with n = 0 it returns only with the
\* instance halted or with a non-OK result; and what it returns is the state
\* at the first step that halts or returns non-OK, nothing executed after.
C12_RunBounded ==
    /\ \A h \in LiveHandles : \A n \in Budgets : \A o \in Runs(vms[h], n) :
          /\ n > 0 => U64Le(o.vm.state.perf_counters[0],
                            U64Add(vms[h].state.perf_counters[0], U64Of(n)))
          /\ n = 0 => o.vm.halted \/ o.ret # NANOCORE_OK
          /\ IF vms[h].halted
             THEN o.vm = vms[h] /\ o.ret = EVENT_HALTED
             ELSE ChainOf(vms[h], n, o)
    /\ call.op = "run" /\ ValidHandle(call.h) /\ call.n = 0 /\ process = "running"
          => vms[call.h].halted \/ call.ret # NANOCORE_OK

\* A run with budget 2 over NOP NOP HALT returned OK with two instructions
\* retired, the pc at the HALT and the instance not halted.
C12_Witness ==
    /\ call.op = "run" /\ call.h = 0 /\ call.n = 2 /\ call.ret = NANOCORE_OK
    /\ vms[0] # NULL
    /\ ~vms[0].halted
    /\ vms[0].state.pc = U64Of(8)
    /\ vms[0].state.perf_counters[0] = U64Of(2)
    /\ Opcode(<<vms[0].memory[8], vms[0].memory[9],
                vms[0].memory[10], vms[0].memory[11]>>) = 33


(***************************************************************************)
(* Bounds of the memory operations                                         *)
(***************************************************************************)
\* C13: a read_memory, write_memory or load_program on a live instance whose
\* address plus size, taken as the true sum, exceeds memory_size (also when
\* the 64-bit sum wraps) returns EINVAL and changes no instance; so no call
\* touches a byte outside [0, memory_size).
C13_BoundsRejected ==
    [][(/\ call'.op \in {"read_memory", "write_memory", "load_program"}
        /\ ValidHandle(call'.h)
        /\ ~call'.null
        /\ ~(/\ IsSmall(call'.address)
             /\ ToNat(call'.address) + call'.n <= vms[call'.h].memory_size))
       => /\ call'.ret = NANOCORE_EINVAL
          /\ vms' = vms
          /\ process' = "running"]_vars


(***************************************************************************)
(* The fetch                                                               *)
(***************************************************************************)
\* C14: a step of a live, not halted instance executes an instruction only
\* when pc + 4 <= memory_size (the true sum) and pc is a multiple of 4;
\* otherwise it returns NANOCORE_ERROR, the instance becomes halted, and
\* nothing else of it changes.
C14_FetchChecked ==
    [][(/\ call'.op \in {"step", "abort"}
        /\ ValidHandle(call'.h)
        /\ ~vms[call'.h].halted
        /\ ~(/\ IsSmall(vms[call'.h].state.pc)
             /\ ToNat(vms[call'.h].state.pc) + 4 <= vms[call'.h].memory_size
             /\ ToNat(vms[call'.h].state.pc) % 4 = 0))
       => /\ call'.op = "step"
          /\ call'.ret = NANOCORE_ERROR
          /\ vms' = [vms EXCEPT ![call'.h].halted = TRUE]]_vars


(***************************************************************************)
(* Handles                                                                 *)
(***************************************************************************)
\* C15 as stated: a call other than create with an invalid handle returns
\* EINVAL and changes no instance, and once destroy(h) has returned OK every
\* later call with h returns EINVAL, whatever calls come in between.  In
\* SpecHandles the host creates only when it holds no instance, so the
\* instance in slot 0 carrying an id above 1 was created after a destroy of
\* handle 0 returned OK.
C15_DestroyedForGood ==
    /\ call.op \notin {"none", "create", "destroy"} /\ ~ValidHandle(call.h)
          => call.ret = NANOCORE_EINVAL
    /\ (/\ call.op \notin {"none", "create", "abort"}
        /\ call.h = 0
        /\ vms[0] # NULL
        /\ vms[0].vm_id > 1)
          => call.ret = NANOCORE_EINVAL

\* C15, amended: a call other than create with a handle that is negative,
\* 256 or more, or whose slot is empty (never issued, or destroyed and not
\* issued again) returns EINVAL and changes no instance; a destroy that
\* returns OK empties the slot of its handle, and only create fills a slot.
C15_InvalidHandleRejected ==
    [][/\ (call'.op # "create" /\ ~ValidHandle(call'.h))
            => call'.ret = NANOCORE_EINVAL /\ vms' = vms
       /\ (call'.op = "destroy" /\ call'.ret = NANOCORE_OK)
            => call'.h \in 0..(NumSlots - 1) /\ vms'[call'.h] = NULL
       /\ vms' # vms
            => \A i \in 0..(NumSlots - 1) :
                  (vms[i] = NULL /\ vms'[i] # NULL)
                     => call'.op = "create" /\ call'.h = i]_vars

\* A step with handle 0 after the instance it named was destroyed returned
\* EINVAL.
C15_Witness ==
    /\ call.op = "step" /\ call.h = 0 /\ call.ret = NANOCORE_EINVAL
    /\ vms[0] = NULL
    /\ next_vm_id > 1


(***************************************************************************)
(* The registry                                                            *)
(***************************************************************************)
\* The lowest slot that holds nothing.
LowestFree == CHOOSE i \in 0..(NumSlots - 1) :
                 vms[i] = NULL /\ \A k \in 0..(i - 1) : vms[k] # NULL

RegistryFull == \A i \in 0..(NumSlots - 1) : vms[i] # NULL

\* C16: instances in different slots are different instances (their ids
\* differ), so no two live instances share a handle and a slot holds only
\* the instance created into it; a create that returns OK returns the
\* lowest free slot and puts the new instance there and nowhere else; an
\* instance never moves to another slot; with all 256 slots occupied create
\* returns NANOCORE_ERROR and changes nothing.
C16_RegistrySlots ==
    /\ [](\A i, j \in LiveHandles : i # j => vms[i].vm_id # vms[j].vm_id)
    /\ [][/\ (call'.op = "create" /\ call'.ret = NANOCORE_OK)
               => /\ ~RegistryFull
                  /\ call'.h = LowestFree
                  /\ call'.out = <<LowestFree>>
                  /\ vms'[call'.h] # NULL
                  /\ vms'[call'.h].vm_id = next_vm_id
                  /\ vms' = [vms EXCEPT ![call'.h] = vms'[call'.h]]
          /\ (call'.op = "create" /\ RegistryFull)
               => /\ call'.ret = NANOCORE_ERROR
                  /\ vms' = vms
                  /\ next_vm_id' = next_vm_id
          /\ vms' # vms
               => \A i \in 0..(NumSlots - 1) :
                     vms'[i] # NULL
                        => \/ vms[i] # NULL /\ vms[i].vm_id = vms'[i].vm_id
                           \/ vms[i] = NULL /\ call'.op = "create" /\ call'.h = i]_vars

\* The registry was filled, slot 0 was freed and filled again by the next
\* create, and with the registry full once more create returned
\* NANOCORE_ERROR.
C16_Witness ==
    /\ RegistryFull
    /\ call.op = "create" /\ call.ret = NANOCORE_ERROR
    /\ vms[0].vm_id = NumSlots + 1


(***************************************************************************)
(* The breakpoint table                                                    *)
(***************************************************************************)
\* C17: an instance stores between 0 and 64 breakpoints, and a
\* set_breakpoint on an instance that already stores 64 returns
\* NANOCORE_EINVAL and leaves the breakpoints as they are.
C17_BreakpointsFull ==
    /\ [](\A h \in LiveHandles :
             vms[h].num_breakpoints \in 0..NumBreakpoints)
    /\ [][(/\ call'.op = "set_breakpoint"
           /\ ValidHandle(call'.h)
           /\ vms[call'.h].num_breakpoints = NumBreakpoints)
          => call'.ret = NANOCORE_EINVAL /\ vms' = vms]_vars


\* C18: the stored breakpoints of an instance are pairwise different
\* addresses: setting an address already present adds no second entry and
\* takes none of the 64 places.
C18_NoDuplicates ==
    \A h \in LiveHandles :
        \A i, j \in 0..(vms[h].num_breakpoints - 1) :
            i # j => vms[h].breakpoints[i] # vms[h].breakpoints[j]


(***************************************************************************)
(* The stack pointer                                                       *)
(***************************************************************************)
\* C19: in every reachable state the sp of every instance is below its
\* memory_size, whatever memory_size > 0 it was created with.
C19_StackInMemory ==
    \A h \in LiveHandles :
        U64Lt(vms[h].state.sp, U64Of(vms[h].memory_size))


(***************************************************************************)
(* Scenario: LD + ADD                                                      *)
(***************************************************************************)
\* The instance holds the program at the default entry point, with the pc
\* at its first word, and is not halted.
LoadedLdAdd(vm) ==
    /\ ~vm.halted
    /\ vm.state.pc = U64Of(EntryPoint)
    /\ vm.memory_size >= EntryPoint + Len(ProgramLdAdd)
    /\ \A i \in 1..Len(ProgramLdAdd) :
          vm.memory[(EntryPoint + i) - 1] = ProgramLdAdd[i]

\* C20: with LD R1,5; LD R2,10; ADD R3,R1,R2; HALT loaded at 0x10000,
\* nanocore_vm_run(h, 0) ends with R1 = 5, R2 = 10, R3 = 15 and the instance
\* halted.
C20_LdAddScenario ==
    [][(/\ call'.op = "run" /\ call'.n = 0
        /\ ValidHandle(call'.h)
        /\ LoadedLdAdd(vms[call'.h]))
       => /\ vms'[call'.h].state.gprs[1] = U64Of(5)
          /\ vms'[call'.h].state.gprs[2] = U64Of(10)
          /\ vms'[call'.h].state.gprs[3] = U64Of(15)
          /\ vms'[call'.h].halted
          /\ call'.ret = EVENT_HALTED]_vars

\* The run of the loaded program has ended: the pc is past the HALT,
\* R3 = 15, the instance is halted, and the three instructions before the
\* HALT are counted as retired.
C20_Witness ==
    /\ call.op = "run" /\ call.n = 0 /\ call.h = 0 /\ call.ret = EVENT_HALTED
    /\ vms[0] # NULL
    /\ vms[0].halted
    /\ vms[0].state.gprs[3] = U64Of(15)
    /\ vms[0].state.pc = U64Of(EntryPoint + 16)
    /\ vms[0].state.perf_counters[0] = U64Of(3)


(***************************************************************************)
(* The test program                                                        *)
(***************************************************************************)
\* The SimpleVM holds the bytes of `program` from TestAddress on, its pc is
\* there, its registers are zero and it is not halted: the state main is in
\* before its vm_run.
TestLoaded(vm, program) ==
    /\ ~vm.halted
    /\ vm.pc = U64Of(TestAddress)
    /\ \A r \in 0..31 : vm.gprs[r] = Zero64
    /\ \A i \in 1..Len(program) :
          SimpleByteAt(vm, (TestAddress + i) - 1) = {program[i]}

\* The word of `program` at index k (from 0), as its four bytes.
WordAt(program, k) == SubSeq(program, (4 * k) + 1, (4 * k) + 4)

\* C21: the test's words 0x3C200005, 0x3C40000A, 0x00614000, 0x84000000
\* decode as LD R1,5; LD R2,10; ADD R3,R1,R2; HALT, and vm_run(vm, 10) on
\* the SimpleVM holding them at 0x10000 with the pc there ends halted with
\* R1 = 5, R2 = 10 and R3 = 15.
C21_TestPasses ==
    [][(/\ simple'.op \in {"run", "abort"}
        /\ simple'.n = TestMaxSteps
        /\ simple.vm # NULL
        /\ TestLoaded(simple.vm, TestProgram))
       => /\ simple'.op = "run"
          /\ simple'.vm.halted
          /\ simple'.vm.gprs[1] = U64Of(5)
          /\ simple'.vm.gprs[2] = U64Of(10)
          /\ simple'.vm.gprs[3] = U64Of(15)
          /\ SimpleOpcode(WordAt(TestProgram, 2)) = 0
          /\ SimpleRd(WordAt(TestProgram, 2)) = 3
          /\ SimpleRs1(WordAt(TestProgram, 2)) = 1
          /\ SimpleRs2(WordAt(TestProgram, 2)) = 2]_vars


(***************************************************************************)
(* Branches                                                                *)
(***************************************************************************)
\* Whether the branch word w is taken in vm: BEQ on equal, BNE on unequal,
\* BLT on gprs[rd] below gprs[rs1] as signed 64-bit values.
BranchHolds(vm, w) ==
    LET a == vm.state.gprs[Rd(w)]
        b == vm.state.gprs[Rs1(w)]
    IN  CASE Opcode(w) = 23 -> a = b
          [] Opcode(w) = 24 -> a # b
          [] Opcode(w) = 25 -> I64Lt(a, b)

\* C22: a step that executes BEQ, BNE or BLT fetched at P leaves the pc at
\* P + 2 * sign_extend(imm16) modulo 2^64 when the condition holds and at
\* P + 4 when it does not; either way it changes no register, retires the
\* instruction and returns OK.
C22_BranchTarget ==
    [][\A h \in LiveHandles :
          (StepExecuted(h) /\ Opcode(ExecutedWord(vms[h])) \in {23, 24, 25})
          => LET vm == vms[h]
                 w  == ExecutedWord(vm)
                 d  == SignExtend16(Imm(w))
             IN  /\ vms'[h].state.pc =
                        IF BranchHolds(vm, w)
                        THEN U64Add(vm.state.pc, U64Add(d, d))
                        ELSE U64Add(vm.state.pc, U64Of(4))
                 /\ vms'[h].state.gprs = vm.state.gprs
                 /\ vms'[h].state.perf_counters[0] =
                        U64Add(vm.state.perf_counters[0], U64Of(1))
                 /\ call'.ret = NANOCORE_OK]_vars

\* A BLT at 4 with displacement -2 was taken on R1 = -1 < R2 = 7 (signed):
\* the pc is back at 0, two instructions retired.
C22_Witness ==
    /\ call.op = "step" /\ call.h = 0 /\ call.ret = NANOCORE_OK
    /\ vms[0] # NULL
    /\ vms[0].state.pc = Zero64
    /\ vms[0].state.perf_counters[0] = U64Of(2)
    /\ vms[0].state.gprs[1] = M64 /\ vms[0].state.gprs[2] = U64Of(7)
    /\ <<vms[0].memory[4], vms[0].memory[5], vms[0].memory[6], vms[0].memory[7]>>
          = Word(25, 1, 2, Neg(2))


(***************************************************************************)
(* Division                                                                *)
(***************************************************************************)
\* u * k + r for a factor k below 2^16, byte by byte: the eight low bytes
\* and what is carried out of them.
RECURSIVE ScaleFrom(_, _, _, _, _)
ScaleFrom(u, k, r, i, carry) ==
    IF i > 8 THEN <<<<>>, carry>>
    ELSE LET s    == (u[i] * k) + r[i] + carry
             rest == ScaleFrom(u, k, r, i + 1, s \div 256)
         IN  <<(<<s % 256>>) \o rest[1], rest[2]>>

\* q * b + r = a in the integers (nothing carried out of 64 bits), one of
\* the factors being below 2^16.
DivisionOf(a, b, q, r) ==
    IF IsSmall(b) /\ ToNat(b) < 65536 THEN ScaleFrom(q, ToNat(b), r, 1, 0) = <<a, 0>>
    ELSE IF IsSmall(q) /\ ToNat(q) < 65536 THEN ScaleFrom(b, ToNat(q), r, 1, 0) = <<a, 0>>
    ELSE FALSE

\* C23: a step that executes DIV or MOD with gprs[rs2] = 0 changes no
\* register and no memory byte, does not halt, advances the pc by 4, returns
\* OK and retires the instruction; with gprs[rs2] # 0 and rd # 0 register rd
\* receives the unsigned 64-bit quotient (DIV) or remainder (MOD).
C23_DivideByZero ==
    [][\A h \in LiveHandles :
          (StepExecuted(h) /\ Opcode(ExecutedWord(vms[h])) \in {4, 5})
          => LET vm == vms[h]
                 w  == ExecutedWord(vm)
                 a  == vm.state.gprs[Rs1(w)]
                 b  == vm.state.gprs[Rs2(w)]
                 d  == vms'[h].state.gprs[Rd(w)]
             IN  /\ b = Zero64
                    => /\ vms'[h].state.gprs = vm.state.gprs
                       /\ vms'[h].memory = vm.memory
                       /\ ~vms'[h].halted
                       /\ vms'[h].state.pc = U64Add(vm.state.pc, U64Of(4))
                       /\ vms'[h].state.perf_counters[0] =
                              U64Add(vm.state.perf_counters[0], U64Of(1))
                       /\ call'.ret = NANOCORE_OK
                 /\ (b # Zero64 /\ Rd(w) # 0)
                    => /\ Opcode(w) = 4
                          => \E r \in {U64Sub(a, U64Mul(d, b))} :
                                U64Lt(r, b) /\ DivisionOf(a, b, d, r)
                       /\ Opcode(w) = 5
                          => /\ U64Lt(d, b)
                             /\ \E q \in {U64Div(a, b), Zero64, U64Of(1)} :
                                   DivisionOf(a, b, q, d)]_vars

\* A DIV of R1 = 2^64 - 1 by R2 = 0 into R3 was stepped over, and so was a
\* DIV of 2^64 - 1 by 7, which left the unsigned quotient 0x2492492492492492.
C23_Witness ==
    /\ call.op = "step" /\ call.h = 0 /\ call.ret = NANOCORE_OK
    /\ vms[0] # NULL
    /\ vms[0].state.pc = U64Of(4)
    /\ vms[0].state.perf_counters[0] = U64Of(1)
    /\ vms[0].state.gprs[1] = M64
    /\ <<vms[0].memory[0], vms[0].memory[1], vms[0].memory[2], vms[0].memory[3]>>
          = RWord(4, 3, 1, 2)
    /\ \/ vms[0].state.gprs[2] = Zero64 /\ vms[0].state.gprs[3] = Zero64
       \/ /\ vms[0].state.gprs[2] = U64Of(7)
          /\ vms[0].state.gprs[3] = <<146, 36, 73, 146, 36, 73, 146, 36>>


(***************************************************************************)
(* Performance counters                                                    *)
(***************************************************************************)
\* C24: a step that executes ST adds one to perf_counters[6] as well as to
\* perf_counters[0] and perf_counters[1]; a step that executes an
\* instruction other than a load or a store leaves perf_counters[6]
\* unchanged; and perf_counters[1] >= perf_counters[0] in every state.
C24_MemoryOps ==
    /\ [](\A h \in LiveHandles :
             U64Le(vms[h].state.perf_counters[0], vms[h].state.perf_counters[1]))
    /\ [][\A h \in LiveHandles :
             StepExecuted(h)
             => LET before == vms[h].state.perf_counters
                    after  == vms'[h].state.perf_counters
                    opcode == Opcode(ExecutedWord(vms[h]))
                IN  /\ opcode = 19
                       => /\ after[6] = U64Add(before[6], U64Of(1))
                          /\ after[0] = U64Add(before[0], U64Of(1))
                          /\ after[1] = U64Add(before[1], U64Of(1))
                    /\ opcode \notin {15, 19} => after[6] = before[6]]_vars


(***************************************************************************)
(* Reset                                                                   *)
(***************************************************************************)
\* C25: a reset that returns OK leaves the instance with the processor
\* state nanocore_vm_create builds for its memory_size (pc at the default
\* entry point, sp = memory_size - 8, everything else zero), not halted and
\* with no breakpoint set, and leaves its memory bytes, its memory_size and
\* the registry (the handle) unchanged.
C25_ResetToCreated ==
    [][\A h \in LiveHandles :
          (call'.op = "reset" /\ call'.h = h /\ call'.ret = NANOCORE_OK)
          => LET created == NewInstance(vms[h].memory_size, vms[h].vm_id)
             IN  /\ vms'[h] # NULL
                 /\ vms'[h].state = created.state
                 /\ vms'[h].state.pc = U64Of(EntryPoint)
                 /\ vms'[h].state.sp = U64Sub(U64Of(vms[h].memory_size), U64Of(8))
                 /\ vms'[h].state.flags = Zero64
                 /\ \A r \in 0..31 : vms'[h].state.gprs[r] = Zero64
                 /\ \A c \in 0..7 : vms'[h].state.perf_counters[c] = Zero64
                 /\ vms'[h].halted = FALSE
                 /\ {vms'[h].breakpoints[i] :
                        i \in 0..(vms'[h].num_breakpoints - 1)} = {}
                 /\ vms'[h].memory = vms[h].memory
                 /\ vms'[h].memory_size = vms[h].memory_size
                 /\ \A k \in 0..(NumSlots - 1) : k # h => vms'[k] = vms[k]
                 /\ next_vm_id' = next_vm_id]_vars

\* A reset has just returned OK on an instance that holds NOP, HALT in
\* memory and had the breakpoint at 4 set: the program is still there, the
\* register and the counters are zero, the instance is not halted.
C25_Witness ==
    /\ ValidHandle(0)
    /\ call.op = "reset" /\ call.h = 0 /\ call.ret = NANOCORE_OK
    /\ vms[0].breakpoints[0] = U64Of(4)
    /\ vms[0].memory[3] = 136 /\ vms[0].memory[7] = 132
    /\ vms[0].state.gprs[1] = Zero64
    /\ vms[0].state.perf_counters[0] = Zero64
    /\ ~vms[0].halted


(***************************************************************************)
(* Clearing a breakpoint                                                   *)
(***************************************************************************)
\* The addresses at which vm has a breakpoint.
BreakpointsOf(vm) == {vm.breakpoints[i] : i \in 0..(vm.num_breakpoints - 1)}

\* C26: clear_breakpoint(h, A) returns NANOCORE_ERROR and leaves the
\* breakpoints as they are when A is not among them; when it returns OK, A
\* is no longer a breakpoint (a step of the instance, not halted and with
\* its pc at A, does not return EVENT_BREAKPOINT) and the breakpoints at
\* the other addresses are kept.
C26_ClearedForGood ==
    /\ []((call.op = "clear_breakpoint" /\ ValidHandle(call.h)
             /\ call.ret = NANOCORE_OK)
          => /\ call.address \notin BreakpointsOf(vms[call.h])
             /\ (~vms[call.h].halted /\ vms[call.h].state.pc = call.address)
                => \A o \in vm_step(vms[call.h]) : o.ret # EVENT_BREAKPOINT)
    /\ [][(call'.op = "clear_breakpoint" /\ ValidHandle(call'.h))
          => LET vm == vms[call'.h]
             IN  /\ call'.address \notin BreakpointsOf(vm)
                    => call'.ret = NANOCORE_ERROR /\ vms' = vms
                 /\ call'.ret = NANOCORE_OK
                    => BreakpointsOf(vm) \ {call'.address}
                          \subseteq BreakpointsOf(vms'[call'.h])]_vars


(***************************************************************************)
(* The two machines                                                        *)
(***************************************************************************)
\* The FFI instance and the SimpleVM are about to run the same program:
\* neither is halted, all registers of both are zero, they hold the same
\* memory image with the same pc in it, and from the pc on the image is
\* words of ADD, LD and HALT only, the last one a HALT.
SameStart(vm, svm) ==
    /\ ~vm.halted /\ ~svm.halted
    /\ \A r \in 0..31 : vm.state.gprs[r] = Zero64 /\ svm.gprs[r] = Zero64
    /\ vm.memory_size = svm.memory_size
    /\ vm.memory = svm.memory
    /\ vm.state.pc = svm.pc
    /\ IsSmall(svm.pc) /\ ToNat(svm.pc) % 4 = 0
    /\ ToNat(svm.pc) + 4 <= svm.memory_size
    /\ svm.memory_size % 4 = 0
    /\ \A k \in (ToNat(svm.pc) \div 4)..((svm.memory_size \div 4) - 1) :
          LET w == <<svm.memory[4 * k], svm.memory[(4 * k) + 1],
                     svm.memory[(4 * k) + 2], svm.memory[(4 * k) + 3]>>
          IN  /\ SimpleOpcode(w) \in {0, 15, 33}
              /\ k = (svm.memory_size \div 4) - 1 => SimpleOpcode(w) = 33

\* C27: started on the same program of ADD, LD and HALT words from the same
\* zeroed registers, memory image and pc, nanocore_vm_run of the FFI
\* instance and vm_run of the SimpleVM both end halted, with the same
\* values in all 32 general-purpose registers.
C27_MachinesAgree ==
    (ValidHandle(0) /\ simple.vm # NULL /\ simple.heap = "intact"
        /\ SameStart(vms[0], simple.vm))
    => \A o \in vm_run(vms[0], 0),
          s \in simple_vm_run(simple.vm, simple.heap, TestMaxSteps) :
            /\ o.vm.halted /\ s.vm.halted
            /\ \A r \in 0..31 : o.vm.state.gprs[r] = s.vm.gprs[r]

=============================================================================
